---------------------------- MODULE Spec2Model ----------------------------
(***************************************************************************)
(* Groundnut leaf disease classifier: the two Flask serving scripts        *)
(* (test2_0.py, the ViT service, and nuuuttsss.py, the Keras service), the *)
(* dashboard pages they serve, the checkpoint loader of modelinfo.py and   *)
(* the training script vitmodel.py.                                        *)
(*                                                                         *)
(* Python strings are modelled as sequences of one-character strings, so   *)
(* that rsplit, lower, startswith, slicing and os.path.join are computed   *)
(* and not assumed.                                                        *)
(***************************************************************************)
EXTENDS Integers, Sequences, FiniteSets, TLC

VARIABLES
    script,     \* which serving script this process runs: "vit" | "keras"
    model,      \* the module-level classifier: "loaded" | "none"
    disk,       \* files written so far: resolved path -> content
    thr,        \* per handler thread: position, request, loop state, response
    running,    \* per handler thread: forward passes it has in progress
    ckpt,       \* modelinfo.load_model: what torch.load returned
    loaded,     \* modelinfo.load_model: the dict given to load_state_dict
    globals,    \* the module-level class list and DISEASE_INFO of the script
    dash,       \* the dashboard page in the browser: history, localStorage
    train,      \* vitmodel.py: the dataset, the training loop, the optimizer
    pre,        \* the preprocessing pipeline: an image and its tensor
    allowed     \* a call of allowed_file: the filename and both scripts' answers

vars ==
    <<script, model, disk, thr, running, ckpt, loaded, globals, dash, train, pre,
      allowed>>

-----------------------------------------------------------------------------
(* String helpers (str methods used by the code) *)

\* the letters that have another case, and their lower-case forms
UpperLetters ==
    <<"A","B","C","D","E","F","G","H","I","J","K","L","M",
      "N","O","P","Q","R","S","T","U","V","W","X","Y","Z">>

LowerLetters ==
    <<"a","b","c","d","e","f","g","h","i","j","k","l","m",
      "n","o","p","q","r","s","t","u","v","w","x","y","z">>

\* str.lower() on one character
LowerChar(c) ==
    IF \E i \in 1..26 : UpperLetters[i] = c
    THEN LowerLetters[CHOOSE i \in 1..26 : UpperLetters[i] = c]
    ELSE c

\* str.lower()
Lower(s) == [i \in 1..Len(s) |-> LowerChar(s[i])]

\* c in s, for a one-character c
HasChar(s, c) == \E i \in 1..Len(s) : s[i] = c

\* index of the last occurrence of c in s (s contains c)
LastIndexOf(s, c) ==
    CHOOSE i \in 1..Len(s) : s[i] = c /\ \A j \in (i+1)..Len(s) : s[j] # c

\* s.rsplit(c, 1)[1] (s contains c)
RSplitLast(s, c) == SubSeq(s, LastIndexOf(s, c) + 1, Len(s))

\* s.startswith(p)
StartsWith(s, p) == Len(s) >= Len(p) /\ SubSeq(s, 1, Len(p)) = p

\* sub in s
HasSubstring(s, sub) ==
    \E i \in 1..(Len(s) - Len(sub) + 1) : SubSeq(s, i, i + Len(sub) - 1) = sub

\* s.split("/")
RECURSIVE SplitSlash(_)
SplitSlash(s) ==
    IF ~HasChar(s, "/") THEN <<s>>
    ELSE LET i == CHOOSE k \in 1..Len(s) :
                     s[k] = "/" /\ \A j \in 1..(k-1) : s[j] # "/"
         IN  <<SubSeq(s, 1, i - 1)>> \o SplitSlash(SubSeq(s, i + 1, Len(s)))

-----------------------------------------------------------------------------
(* allowed_file of both scripts *)

ALLOWED_EXTENSIONS ==
    { <<"p","n","g">>, <<"j","p","g">>, <<"j","p","e","g">>, <<"w","e","b","p">> }

\* a variant that takes the text after the first dot (split in place of
\* rsplit)
keras_allowed_file_first_dot(filename) ==
    HasChar(filename, ".")
      /\ LET i == CHOOSE k \in 1..Len(filename) :
                     filename[k] = "." /\ \A j \in 1..(k-1) : filename[j] # "."
         IN  Lower(SubSeq(filename, i + 1, Len(filename))) \in ALLOWED_EXTENSIONS

keras_allowed_file(filename) ==
    HasChar(filename, ".")
      /\ Lower(RSplitLast(filename, ".")) \in ALLOWED_EXTENSIONS

\* a variant that accepts every name with a dot
vit_allowed_file_any_extension(filename) == HasChar(filename, ".")

vit_allowed_file(filename) ==
    HasChar(filename, ".")
      /\ Lower(RSplitLast(filename, "."))
           \in { <<"p","n","g">>, <<"j","p","g">>, <<"j","p","e","g">>,
                 <<"w","e","b","p">> }

\* longest filename of the runs that call allowed_file on every name
MaxName == 5

\* the characters those names are made of
NameChars == {"a", ".", "p", "n", "g", "P"}

\* every name of up to MaxName characters, and names with each of the
\* extensions, in either case, doubled, cut short and prolonged
Filenames ==
    UNION { [1..n -> NameChars] : n \in 0..MaxName }
      \cup { <<"a",".","P","N","G">>, <<"a",".","p","n","g",".","e","x","e">>,
             <<"p","n","g">>, <<"a",".","j","p","g">>, <<"a",".","J","p","G">>,
             <<"a",".","j","p","e","g">>, <<"a",".","w","e","b","p">>,
             <<"a",".","W","E","B","P">>, <<"a",".","b",".","w","e","b","p">>,
             <<"a",".","j","p","e">>, <<"a",".","w","e","b">>,
             <<"a",".","j","p","e","g","s">>, <<"a","j","p","g">>,
             <<"a",".","g","i","f">>, <<"a",".","j","p","g",".">>,
             <<"j","p","g",".","a">> }

InitAllowed ==
    /\ script = "vit"
    /\ model = "loaded"
    /\ disk = <<>>
    /\ thr = <<>>
    /\ running = <<>>
    /\ ckpt = <<>>
    /\ loaded = <<>>
    /\ globals = <<>>
    /\ dash = <<>>
    /\ train = <<>>
    /\ pre = <<>>
    /\ \E filename \in Filenames :
          allowed = [pc |-> "called", filename |-> filename,
                     vit |-> FALSE, keras |-> FALSE]

\* allowed_file(filename) of test2_0.py and of nuuuttsss.py return
AllowedFileReturns ==
    /\ allowed.pc = "called"
    /\ allowed' = [allowed EXCEPT !.pc = "returned",
                                  !.vit = vit_allowed_file(allowed.filename),
                                  !.keras = keras_allowed_file(allowed.filename)]
    /\ UNCHANGED <<script, model, disk, thr, running, ckpt, loaded, globals, dash, train, pre>>

AllowedSpec == InitAllowed /\ [][AllowedFileReturns]_vars

-----------------------------------------------------------------------------
(* The file system the ViT service saves uploads to *)

UPLOAD_FOLDER == <<"u","p","l","o","a","d","s">>

\* the working directory of the process, as path components
Cwd == << <<"s","r","v">> >>

\* app.config["UPLOAD_FOLDER"] resolved; os.makedirs created it at start
UploadDir == Cwd \o <<UPLOAD_FOLDER>>

\* the directories that exist (no handler creates one)
Dirs == { <<>>, Cwd, UploadDir, << <<"t","m","p">> >> }

\* os.path.join(a, b) for a non-empty a that does not end with "/"
PathJoin(a, b) == IF StartsWith(b, <<"/">>) THEN b ELSE a \o <<"/">> \o b

\* The kernel's walk over the components of a path, from directory `at`:
\* "" and "." stay, ".." goes up, a name enters a directory that must exist.
\* The result is the directory reached; ok = FALSE when a directory on the way
\* does not exist.
RECURSIVE Walk(_, _)
Walk(at, comps) ==
    IF comps = <<>> THEN [ok |-> TRUE, dir |-> at]
    ELSE LET c == Head(comps)
             next == IF c = <<>> \/ c = <<".">> THEN at
                     ELSE IF c = <<".", ".">>
                          THEN (IF at = <<>> THEN at
                                ELSE SubSeq(at, 1, Len(at) - 1))
                          ELSE Append(at, c)
         IN  IF next \in Dirs THEN Walk(next, Tail(comps))
             ELSE [ok |-> FALSE, dir |-> at]

\* open(path, "wb"): the file the path names, or failure (FileNotFoundError for
\* a missing directory, IsADirectoryError for a directory)
ResolveFile(path) ==
    LET comps == SplitSlash(path)
        start == IF StartsWith(path, <<"/">>) THEN <<>> ELSE Cwd
        w     == Walk(start, SubSeq(comps, 1, Len(comps) - 1))
        base  == comps[Len(comps)]
    IN  IF ~w.ok \/ base = <<>> \/ base = <<".">> \/ base = <<".", ".">>
        THEN [ok |-> FALSE, file |-> <<>>]
        ELSE IF Append(w.dir, base) \in Dirs
             THEN [ok |-> FALSE, file |-> <<>>]
             ELSE [ok |-> TRUE, file |-> Append(w.dir, base)]

\* a file lies in the upload directory or below it
UnderUploadDir(file) ==
    Len(file) > Len(UploadDir) /\ SubSeq(file, 1, Len(UploadDir)) = UploadDir

-----------------------------------------------------------------------------
(* Static data of the two scripts.  Python lists are 0-based; the sequences  *)
(* here are 1-based, so Python index p is position p + 1.                    *)

CLASS_NAMES ==
    << "ALTERNARIA LEAF SPOT", "ROSETTE", "early_leaf_spot_1", "early_rust_1",
       "healthy_leaf_1", "late_leaf_spot_1", "nutrition_deficiency_1", "rust_1" >>

\* a variant that lists six labels in the order CLASS_NAMES has them
CLASSES_as_in_CLASS_NAMES ==
    << "ALTERNARIA LEAF SPOT", "ROSETTE", "early_leaf_spot_1", "early_rust_1",
       "healthy_leaf_1", "late_leaf_spot_1" >>

\* the labels of the charts and the heatmap of test2_0.py's page
CLASS_LABELS ==
    << "Alternaria", "Rosette", "Early LS", "Early Rust",
       "Healthy", "Late LS", "Nutrition", "Advanced Rust" >>

CLASSES ==
    << "early_rust_1", "late_leaf_spot_1", "nutrition_deficiency_1",
       "healthy_leaf_1", "early_leaf_spot_1", "rust_1" >>

\* The disease records: name, the lengths of the causes, cure and prevention
\* lists, and the weather_alerts dict.
VIT_DISEASE_INFO ==
    ("ALTERNARIA LEAF SPOT" :>
        [name |-> "Alternaria Leaf Spot", causes |-> 4, cure |-> 3,
         prevention |-> 4,
         weather_alerts |-> ("high_humidity" :> "High humidity increases Alternaria risk. Monitor closely.")])
    @@ ("ROSETTE" :>
        [name |-> "Groundnut Rosette Disease", causes |-> 3, cure |-> 2,
         prevention |-> 4,
         weather_alerts |-> ("aphid_risk" :> "Warm, dry conditions favor aphid migration - monitor vectors.")])
    @@ ("early_leaf_spot_1" :>
        [name |-> "Early Leaf Spot", causes |-> 4, cure |-> 3,
         prevention |-> 3,
         weather_alerts |-> ("high_humidity" :> "High humidity promotes leaf spot - use drip irrigation.")])
    @@ ("early_rust_1" :>
        [name |-> "Early Rust", causes |-> 3, cure |-> 3,
         prevention |-> 3,
         weather_alerts |-> ("high_humidity" :> "Rust risk rising - increase scouting.")])
    @@ ("healthy_leaf_1" :>
        [name |-> "Healthy Leaf", causes |-> 3, cure |-> 2,
         prevention |-> 3,
         weather_alerts |-> ("high_humidity" :> "Healthy now, but watch for fungal risks in humidity.")])
    @@ ("late_leaf_spot_1" :>
        [name |-> "Late Leaf Spot", causes |-> 3, cure |-> 3,
         prevention |-> 3,
         weather_alerts |-> ("high_humidity" :> "Late leaf spot risk high - avoid overhead watering.")])
    @@ ("nutrition_deficiency_1" :>
        [name |-> "Nutritional Deficiency", causes |-> 3, cure |-> 3,
         prevention |-> 3,
         weather_alerts |-> ("high_rain" :> "Heavy rain may leach nutrients - test soil.")])
    @@ ("rust_1" :>
        [name |-> "Advanced Rust", causes |-> 3, cure |-> 3,
         prevention |-> 3,
         weather_alerts |-> ("high_humidity" :> "Advanced rust detected - urgent action required!")])

KERAS_DISEASE_INFO ==
    ("early_rust_1" :>
        [name |-> "Early Rust", causes |-> 4, cure |-> 4,
         prevention |-> 4,
         weather_alerts |-> ("high_humidity" :> "High humidity detected! Increase monitoring for rust spread.")])
    @@ ("late_leaf_spot_1" :>
        [name |-> "Late Leaf Spot", causes |-> 4, cure |-> 3,
         prevention |-> 4,
         weather_alerts |-> ("high_humidity" :> "High humidity may worsen leaf spot. Avoid overhead irrigation.")])
    @@ ("nutrition_deficiency_1" :>
        [name |-> "Nutritional Deficiency", causes |-> 4, cure |-> 3,
         prevention |-> 3,
         weather_alerts |-> ("high_rain" :> "Heavy rain may leach nutrients. Check soil health.")])
    @@ ("healthy_leaf_1" :>
        [name |-> "Healthy Leaf", causes |-> 4, cure |-> 2,
         prevention |-> 3,
         weather_alerts |-> ("high_humidity" :> "Healthy leaves detected, but monitor for fungal risks in humid conditions.")])
    @@ ("early_leaf_spot_1" :>
        [name |-> "Early Leaf Spot", causes |-> 4, cure |-> 3,
         prevention |-> 3,
         weather_alerts |-> ("high_humidity" :> "High humidity increases leaf spot risk. Use drip irrigation.")])
    @@ ("rust_1" :>
        [name |-> "Advanced Rust", causes |-> 3, cure |-> 3,
         prevention |-> 3,
         weather_alerts |-> ("high_humidity" :> "Advanced rust detected! Urgent action needed in humid conditions.")])

\* a variant that finds no record for any label and answers the defaults
InfoGetNoRecord(db, label) ==
    [name |-> label, causes |-> 0, cure |-> 0, prevention |-> 0,
     weather_alerts |-> <<>>]

\* DISEASE_INFO.get(predicted_class, {}) followed by info.get(key, default)
InfoGet(db, label) ==
    IF label \in DOMAIN db THEN db[label]
    ELSE [name |-> label, causes |-> 0, cure |-> 0, prevention |-> 0,
          weather_alerts |-> <<>>]

\* The module-level names the handlers read: the class list and DISEASE_INFO,
\* as the script's top level binds them when the process starts
StartupGlobals(s) ==
    IF s = "vit"
    THEN [classes |-> CLASS_NAMES, disease_info |-> VIT_DISEASE_INFO]
    ELSE [classes |-> CLASSES, disease_info |-> KERAS_DISEASE_INFO]

-----------------------------------------------------------------------------
(* The classifier.  The trained weights are not part of the repository: the  *)
(* raw output for an image is any vector of a bounded family, with one entry *)
(* per class (test2_0.py builds the network with num_labels =                *)
(* len(CLASS_NAMES); the .h5 network is taken to have len(CLASSES) outputs). *)
(* Floats are fixed-point integers: probabilities in units of 1/10000.       *)

\* raw outputs: lo everywhere, one high entry h and one entry s of height m
RawShape(n, h, s, m) ==
    [i \in 1..n |-> IF i = h THEN 2 ELSE IF i = s THEN m ELSE -1]

RawVecs(n) == { RawShape(n, h, 2, m) : h \in {1, n}, m \in {0, 2} }

\* the raw outputs behind the answers the dashboard page receives
DashRaws(n) == { RawShape(n, h, 2, 0) : h \in {2, 3} }

\* e^x in units of 1/1000, for the raw values above
ExpMilli(x) == CASE x = -1 -> 368 [] x = 0 -> 1000 [] x = 1 -> 2718 [] x = 2 -> 7389

RECURSIVE SumSeq(_)
SumSeq(s) == IF s = <<>> THEN 0 ELSE Head(s) + SumSeq(Tail(s))

\* a variant that normalises over the batch dimension (dim=0): with a batch
\* of one image every entry becomes 1
SoftmaxOverBatch(raw) == [i \in 1..Len(raw) |-> 10000]

\* torch.softmax(outputs, dim=1)[0]
Softmax(raw) ==
    LET e == [i \in 1..Len(raw) |-> ExpMilli(raw[i])]
    IN  [i \in 1..Len(raw) |-> (e[i] * 10000) \div SumSeq(e)]

\* model.predict(image_array)[0] of the network in Groundnut_disease_model.h5,
\* which is not part of the repository: a probability vector over the classes
KerasModelPredict(raw) == Softmax(raw)

\* a variant that picks the smallest entry
ArgMin(v) ==
    CHOOSE i \in 1..Len(v) :
        /\ \A j \in 1..Len(v) : v[j] >= v[i]
        /\ \A j \in 1..(i-1) : v[j] > v[i]

\* argmax: the first position holding the maximum
ArgMax(v) ==
    CHOOSE i \in 1..Len(v) :
        /\ \A j \in 1..Len(v) : v[j] <= v[i]
        /\ \A j \in 1..(i-1) : v[j] < v[i]

\* predict_image, from the forward pass on: the result dict for logits `raw`
VitPrediction(raw) ==
    LET probs           == Softmax(raw)
        class_id        == ArgMax(raw)
        predicted_class == globals.classes[class_id]
        info            == InfoGet(globals.disease_info, predicted_class)
    IN  [predicted_class |-> info.name,
         confidence      |-> probs[class_id],
         all_confidences |-> probs,
         causes          |-> info.causes,
         cure            |-> info.cure,
         prevention      |-> info.prevention,
         weather_alerts  |-> info.weather_alerts]

\* predict_class, from model.predict on: the result dict for predictions[0],
\* or None (ok = FALSE) when CLASSES[predicted_class_idx] raises IndexError
KerasPrediction(predictions0) ==
    LET predicted_class_idx == ArgMax(predictions0)
    IN  IF predicted_class_idx > Len(globals.classes)
        THEN [ok |-> FALSE, dict |-> <<>>]
        ELSE LET predicted_class == globals.classes[predicted_class_idx]
                 info == InfoGet(globals.disease_info, predicted_class)
             IN  [ok |-> TRUE,
                  dict |-> [predicted_class |-> info.name,
                            confidence      |-> predictions0[predicted_class_idx],
                            causes          |-> info.causes,
                            cure            |-> info.cure,
                            prevention      |-> info.prevention,
                            all_confidences |-> predictions0,
                            weather_alerts  |-> info.weather_alerts]]

-----------------------------------------------------------------------------
(* modelinfo.py: load_model.  A dict is the sequence of its items in         *)
(* insertion order, with distinct keys; a value is a tensor or a dict.       *)

\* most items in a state dict
MaxKeys == 2

Tensor(n) == [t |-> "tensor", id |-> n, d |-> <<>>]
DictValue(items) == [t |-> "dict", id |-> 0, d |-> items]
Item(k, v) == [k |-> k, v |-> v]

K_state_dict == <<"s","t","a","t","e","_","d","i","c","t">>
K_module_dot == <<"m","o","d","u","l","e",".">>

\* parameter names, with and without the prefix DataParallel adds
ParamKeys ==
    { <<"w">>, K_module_dot \o <<"w">>, K_module_dot \o K_module_dot \o <<"w">>,
      <<"b">>, K_module_dot \o <<"b">>, <<"m","o","d","u","l","e","w">> }

\* state dicts: up to MaxKeys items with distinct keys
StateDicts ==
    { sd \in UNION { [1..n -> { Item(k, Tensor(v)) : k \in ParamKeys, v \in {1, 2} }] :
                       n \in 1..MaxKeys } :
        \A i, j \in 1..Len(sd) : i # j => sd[i].k # sd[j].k }

\* what torch.load returns: a state dict, or a dict holding one under
\* "state_dict" beside other entries
Checkpoints ==
    StateDicts
      \cup { << Item(<<"e","p","o","c","h">>, Tensor(0)),
                Item(K_state_dict, DictValue(sd)) >> : sd \in StateDicts }

\* "state_dict" in checkpoint
HasKey(items, k) == \E i \in 1..Len(items) : items[i].k = k

\* checkpoint[k]
ValueOf(items, k) == items[CHOOSE i \in 1..Len(items) : items[i].k = k].v

\* the loop of load_model: new_checkpoint after the items seen so far; a later
\* assignment to the same key replaces the earlier value
RECURSIVE StripPrefixes(_, _)
StripPrefixes(items, new_checkpoint) ==
    IF items = <<>> THEN new_checkpoint
    ELSE LET k == Head(items).k
             v == Head(items).v
         IN  IF StartsWith(k, K_module_dot)
             THEN StripPrefixes(Tail(items),
                                (SubSeq(k, 8, Len(k)) :> v) @@ new_checkpoint)
             ELSE StripPrefixes(Tail(items), (k :> v) @@ new_checkpoint)

\* load_model up to model.load_state_dict: the dict it is called with
load_model(checkpoint) ==
    LET unwrapped == IF HasKey(checkpoint, K_state_dict)
                     THEN ValueOf(checkpoint, K_state_dict).d
                     ELSE checkpoint
    IN  StripPrefixes(unwrapped, <<>>)

\* ViT.__init__: the default of num_classes, the size of mlp_head's output
ViT_num_classes == 7

NotLoaded == [done |-> FALSE, dict |-> <<>>, num_classes |-> 0]

InitLoad ==
    /\ script = "vit"
    /\ model = "loaded"
    /\ disk = <<>>
    /\ thr = <<>>
    /\ running = <<>>
    /\ ckpt \in Checkpoints
    /\ loaded = NotLoaded
    /\ globals = StartupGlobals(script)
    /\ allowed = <<>>
    /\ dash = <<>>
    /\ train = <<>>
    /\ pre = <<>>

\* modelinfo.py load_model: model = ViT() with every default, and torch.load
\* returned ckpt
LoadModel ==
    /\ ~loaded.done
    /\ loaded' = [done |-> TRUE, dict |-> load_model(ckpt),
                  num_classes |-> ViT_num_classes]
    /\ UNCHANGED <<script, model, disk, thr, running, ckpt, globals, dash, train, pre, allowed>>

LoadSpec == InitLoad /\ [][LoadModel]_vars

-----------------------------------------------------------------------------
(* Requests the clients send *)

\* longest list of files in one multi-file request
MaxFiles == 2

\* file contents: two decodable images and one that PIL cannot decode
Decodable(content) == content \in {"imgA", "imgB"}

Upload(filename, content) == [filename |-> filename, content |-> content]

Uploads ==
    { Upload(<<"a",".","p","n","g">>, "imgA"),
      Upload(<<"a",".","p","n","g">>, "imgB"),
      Upload(<<"c",".","P","N","G">>, "junk"),
      Upload(<<"b",".","t","x","t">>, "imgA"),
      Upload(<<".",".","/","e",".","p","n","g">>, "imgA"),
      Upload(<<"d","/","x",".","j","p","g">>, "imgA"),
      Upload(<<"/","t","m","p","/","z",".","w","e","b","p">>, "imgB"),
      Upload(<<>>, "imgA") }

\* the uploads of the concurrent runs: one name with two images, and a name
\* that is not accepted
ConcUploads ==
    { Upload(<<"a",".","p","n","g">>, "imgA"),
      Upload(<<"a",".","p","n","g">>, "imgB"),
      Upload(<<"b",".","t","x","t">>, "imgA") }

\* a POST /predict: whether the multipart body has the file part the handler
\* looks up, and the files sent under it, in upload order
PredictRequests(uploads, n) ==
    { [hasPart |-> FALSE, files |-> <<>>] }
      \cup { [hasPart |-> TRUE, files |-> fs] :
                fs \in UNION { [1..k -> uploads] : k \in 1..n } }

Threads == {"t1", "t2"}

-----------------------------------------------------------------------------
(* Handler threads *)

NoResponse == [status |-> 0, kind |-> "none", body |-> <<>>]

\* no call of the external service made
NoOutcome == [exc |-> "none", json |-> FALSE, status |-> 0, body |-> 0]

\* A thread's record.  The fields saved, opened and classified (positions of
\* the request's files given to file.save, to Image.open and to the model),
\* written (the files file.save wrote for this request), waited (the seconds
\* requests.get has waited for the external service),
\* outputs (what the classifier returned for each entry of results, <<>> for
\* an error entry), outcome (what requests.get did), calls (the calls of
\* requests.get made for this request), again (this /weather request follows
\* another /weather request on the thread) and last (the route of the request
\* the thread answered before, kept while it is idle) record what the handler
\* has done; the handler never reads them.
Idle ==
    [pc |-> "idle", route |-> "none", files |-> <<>>, idx |-> 0,
     results |-> <<>>, filepath |-> <<>>, image |-> "none", waited |-> 0,
     saved |-> {}, written |-> {}, opened |-> {}, classified |-> {},
     outputs |-> <<>>, outcome |-> NoOutcome, calls |-> 0, again |-> FALSE,
     last |-> "none",
     resp |-> NoResponse]

\* jsonify(body), status
JsonResponse(status, kind, body) == [status |-> status, kind |-> kind, body |-> body]

\* jsonify({"error": msg}), status
ErrorResponse(status, msg) == JsonResponse(status, "json_dict", [error |-> msg])

\* an exception that leaves the view function: Flask answers 500 with a page
UnhandledException == [status |-> 500, kind |-> "exception", body |-> <<>>]

\* bool(file) of a werkzeug FileStorage: bool(file.filename)
Truthy(file) == file.filename # <<>>

Init ==
    /\ script \in {"vit", "keras"}
    /\ model \in (IF script = "vit" THEN {"loaded"} ELSE {"loaded", "none"})
    /\ disk = <<>>
    /\ thr = [t \in Threads |-> Idle]
    /\ running = [t \in Threads |-> 0]
    /\ ckpt = <<>>
    /\ loaded = NotLoaded
    /\ globals = StartupGlobals(script)
    /\ allowed = <<>>
    /\ dash = <<>>
    /\ train = <<>>
    /\ pre = <<>>

Finish(t, response) ==
    thr' = [thr EXCEPT ![t].pc = "done", ![t].resp = response]

\* test2_0.py predict: the request-level checks
VitPredictRequest(t, reqs) ==
    /\ script = "vit"
    /\ thr[t].pc = "idle"
    /\ \E r \in reqs :
         thr' = [thr EXCEPT ![t] =
           IF ~r.hasPart
           THEN [Idle EXCEPT !.pc = "done", !.route = "predict",
                    !.resp = ErrorResponse(400, <<"No images provided">>)]
           ELSE IF r.files = <<>> \/ \A i \in 1..Len(r.files) : r.files[i].filename = <<>>
           THEN [Idle EXCEPT !.pc = "done", !.route = "predict", !.files = r.files,
                    !.resp = ErrorResponse(400, <<"No files selected">>)]
           ELSE [Idle EXCEPT !.pc = "loop", !.route = "predict", !.files = r.files,
                    !.idx = 1]]
    /\ UNCHANGED <<script, model, disk, running, ckpt, loaded, globals, dash, train, pre, allowed>>

\* test2_0.py predict, loop body, else branch: the file is not accepted
VitReject(t) ==
    /\ script = "vit"
    /\ thr[t].pc = "loop"
    /\ thr[t].idx <= Len(thr[t].files)
    /\ LET file == thr[t].files[thr[t].idx]
       IN  /\ ~(Truthy(file) /\ vit_allowed_file(file.filename))
           /\ thr' = [thr EXCEPT
                 ![t].results = Append(@, [error |-> <<"Invalid file: ">> \o file.filename]),
                 ![t].outputs = Append(@, <<>>),
                 ![t].idx = @ + 1]
    /\ UNCHANGED <<script, model, disk, running, ckpt, loaded, globals, dash, train, pre, allowed>>

\* test2_0.py predict, loop body: os.path.join and file.save, outside any try
VitSave(t) ==
    /\ script = "vit"
    /\ thr[t].pc = "loop"
    /\ thr[t].idx <= Len(thr[t].files)
    /\ LET file     == thr[t].files[thr[t].idx]
           filepath == PathJoin(UPLOAD_FOLDER, file.filename)
           target   == ResolveFile(filepath)
       IN  /\ Truthy(file) /\ vit_allowed_file(file.filename)
           /\ IF target.ok
              THEN /\ disk' = (target.file :> file.content) @@ disk
                   /\ thr' = [thr EXCEPT ![t].pc = "saved",
                                         ![t].filepath = filepath,
                                         ![t].saved = @ \cup {thr[t].idx},
                                         ![t].written = @ \cup {target.file}]
              ELSE /\ disk' = disk
                   /\ thr' = [thr EXCEPT ![t].pc = "done",
                                         ![t].filepath = filepath,
                                         ![t].resp = UnhandledException]
    /\ UNCHANGED <<script, model, running, ckpt, loaded, globals, dash, train, pre, allowed>>

\* a variant that hands the tensor to the model and goes on with the next
\* file without waiting for the result
VitOpenDetached(t) ==
    /\ script = "vit"
    /\ thr[t].pc = "saved"
    /\ LET content == disk[ResolveFile(thr[t].filepath).file]
       IN  IF Decodable(content)
           THEN /\ thr' = [thr EXCEPT ![t].pc = "loop",
                                      ![t].image = content,
                                      ![t].opened = @ \cup {thr[t].idx},
                                      ![t].classified = @ \cup {thr[t].idx},
                                      ![t].results =
                                          Append(@, [error |-> <<"pending">>]),
                                      ![t].outputs = Append(@, <<>>),
                                      ![t].idx = @ + 1]
                /\ running' = [running EXCEPT ![t] = @ + 1]
           ELSE /\ thr' = [thr EXCEPT ![t].pc = "loop",
                                      ![t].opened = @ \cup {thr[t].idx},
                                      ![t].results =
                                          Append(@, [error |-> <<"Failed to process image">>]),
                                      ![t].outputs = Append(@, <<>>),
                                      ![t].idx = @ + 1]
                /\ running' = running
    /\ UNCHANGED <<script, model, disk, ckpt, loaded, globals, dash, train, pre, allowed>>

\* predict_image up to the forward pass: Image.open(image_path).convert and
\* transform read the file at image_path as it is now; a failure is caught
\* and predict_image returns None
VitOpen(t) ==
    /\ script = "vit"
    /\ thr[t].pc = "saved"
    /\ LET content == disk[ResolveFile(thr[t].filepath).file]
       IN  IF Decodable(content)
           THEN /\ thr' = [thr EXCEPT ![t].pc = "forward",
                                      ![t].image = content,
                                      ![t].opened = @ \cup {thr[t].idx},
                                      ![t].classified = @ \cup {thr[t].idx}]
                /\ running' = [running EXCEPT ![t] = @ + 1]
           ELSE /\ thr' = [thr EXCEPT ![t].pc = "loop",
                                      ![t].opened = @ \cup {thr[t].idx},
                                      ![t].results =
                                          Append(@, [error |-> <<"Failed to process image">>]),
                                      ![t].outputs = Append(@, <<>>),
                                      ![t].idx = @ + 1]
                /\ running' = running
    /\ UNCHANGED <<script, model, disk, ckpt, loaded, globals, dash, train, pre, allowed>>

\* predict_image: model(img_tensor) returns; softmax, argmax, the result dict
VitForwardEnd(t) ==
    /\ script = "vit"
    /\ thr[t].pc = "forward"
    /\ \E raw \in RawVecs(Len(CLASS_NAMES)) :
         thr' = [thr EXCEPT ![t].pc = "loop",
                            ![t].results = Append(@, VitPrediction(raw)),
                            ![t].outputs = Append(@, raw),
                            ![t].image = "none",
                            ![t].idx = @ + 1]
    /\ running' = [running EXCEPT ![t] = @ - 1]
    /\ UNCHANGED <<script, model, disk, ckpt, loaded, globals, dash, train, pre, allowed>>

\* a variant that removes the request's saved files before it answers
VitRespondCleanup(t) ==
    /\ script = "vit"
    /\ thr[t].pc = "loop"
    /\ thr[t].idx > Len(thr[t].files)
    /\ Finish(t, JsonResponse(200, "json_list", thr[t].results))
    /\ disk' = [f \in (DOMAIN disk) \ thr[t].written |-> disk[f]]
    /\ UNCHANGED <<script, model, running, ckpt, loaded, globals, dash, train, pre, allowed>>

\* test2_0.py predict: return jsonify(results)
VitRespond(t) ==
    /\ script = "vit"
    /\ thr[t].pc = "loop"
    /\ thr[t].idx > Len(thr[t].files)
    /\ Finish(t, JsonResponse(200, "json_list", thr[t].results))
    /\ UNCHANGED <<script, model, disk, running, ckpt, loaded, globals, dash, train, pre, allowed>>

\* a variant that tests the extension before the empty filename
KerasPredictRequestExtensionFirst(t, reqs) ==
    /\ script = "keras"
    /\ thr[t].pc = "idle"
    /\ \E r \in reqs :
         thr' = [thr EXCEPT ![t] =
           IF ~r.hasPart
           THEN [Idle EXCEPT !.pc = "done", !.route = "predict",
                    !.resp = ErrorResponse(400, <<"No image file provided">>)]
           ELSE IF ~keras_allowed_file(r.files[1].filename)
           THEN [Idle EXCEPT !.pc = "done", !.route = "predict", !.files = r.files,
                    !.resp = ErrorResponse(400, <<"Invalid file type">>)]
           ELSE IF r.files[1].filename = <<>>
           THEN [Idle EXCEPT !.pc = "done", !.route = "predict", !.files = r.files,
                    !.resp = ErrorResponse(400, <<"No file selected">>)]
           ELSE [Idle EXCEPT !.pc = "accepted", !.route = "predict", !.files = r.files,
                    !.idx = 1]]
    /\ UNCHANGED <<script, model, disk, running, ckpt, loaded, globals, dash, train, pre, allowed>>

\* nuuuttsss.py predict: the three request checks (HTTP 400)
KerasPredictRequest(t, reqs) ==
    /\ script = "keras"
    /\ thr[t].pc = "idle"
    /\ \E r \in reqs :
         thr' = [thr EXCEPT ![t] =
           IF ~r.hasPart
           THEN [Idle EXCEPT !.pc = "done", !.route = "predict",
                    !.resp = ErrorResponse(400, <<"No image file provided">>)]
           ELSE IF r.files[1].filename = <<>>
           THEN [Idle EXCEPT !.pc = "done", !.route = "predict", !.files = r.files,
                    !.resp = ErrorResponse(400, <<"No file selected">>)]
           ELSE IF ~keras_allowed_file(r.files[1].filename)
           THEN [Idle EXCEPT !.pc = "done", !.route = "predict", !.files = r.files,
                    !.resp = ErrorResponse(400, <<"Invalid file type">>)]
           ELSE [Idle EXCEPT !.pc = "accepted", !.route = "predict", !.files = r.files,
                    !.idx = 1]]
    /\ UNCHANGED <<script, model, disk, running, ckpt, loaded, globals, dash, train, pre, allowed>>

\* a variant whose predict_class does not test model is None
KerasPreprocessNoModelTest(t) ==
    /\ script = "keras"
    /\ thr[t].pc = "accepted"
    /\ LET content == thr[t].files[1].content
       IN  IF ~Decodable(content)
           THEN /\ thr' = [thr EXCEPT ![t].pc = "done",
                                      ![t].opened = @ \cup {1},
                                      ![t].resp = ErrorResponse(500, <<"Error processing image">>)]
                /\ running' = running
           ELSE /\ thr' = [thr EXCEPT ![t].pc = "forward",
                                      ![t].image = content,
                                      ![t].opened = @ \cup {1},
                                      ![t].classified = @ \cup {1}]
                /\ running' = [running EXCEPT ![t] = @ + 1]
    /\ UNCHANGED <<script, model, disk, ckpt, loaded, globals, dash, train, pre, allowed>>

\* nuuuttsss.py predict: preprocess_image(file) reads the upload stream; then
\* predict_class raises at once when the model is None, else model.predict
KerasPreprocess(t) ==
    /\ script = "keras"
    /\ thr[t].pc = "accepted"
    /\ LET content == thr[t].files[1].content
       IN  IF ~Decodable(content)
           THEN /\ thr' = [thr EXCEPT ![t].pc = "done",
                                      ![t].opened = @ \cup {1},
                                      ![t].resp = ErrorResponse(500, <<"Error processing image">>)]
                /\ running' = running
           ELSE IF model = "none"
           THEN /\ thr' = [thr EXCEPT ![t].pc = "done",
                                      ![t].opened = @ \cup {1},
                                      ![t].resp = ErrorResponse(500, <<"Error making prediction">>)]
                /\ running' = running
           ELSE /\ thr' = [thr EXCEPT ![t].pc = "forward",
                                      ![t].image = content,
                                      ![t].opened = @ \cup {1},
                                      ![t].classified = @ \cup {1}]
                /\ running' = [running EXCEPT ![t] = @ + 1]
    /\ UNCHANGED <<script, model, disk, ckpt, loaded, globals, dash, train, pre, allowed>>

\* a variant that takes the alerts it reports out of the DISEASE_INFO record
KerasForwardEndPopsAlerts(t) ==
    /\ script = "keras"
    /\ thr[t].pc = "forward"
    /\ \E raw \in RawVecs(Len(CLASSES)) :
         LET prediction_result == KerasPrediction(KerasModelPredict(raw))
             label == globals.classes[ArgMax(raw)]
         IN  /\ thr' = [thr EXCEPT
                   ![t].pc = "done",
                   ![t].image = "none",
                   ![t].results = <<prediction_result.dict>>,
                   ![t].outputs = <<KerasModelPredict(raw)>>,
                   ![t].resp = JsonResponse(200, "json_dict", prediction_result.dict)]
             /\ globals' = [globals EXCEPT !.disease_info[label].weather_alerts = <<>>]
    /\ running' = [running EXCEPT ![t] = @ - 1]
    /\ UNCHANGED <<script, model, disk, ckpt, loaded, dash, train, pre, allowed>>

\* predict_class: model.predict returns; argmax, the result dict, the response
KerasForwardEnd(t) ==
    /\ script = "keras"
    /\ thr[t].pc = "forward"
    /\ \E raw \in RawVecs(Len(CLASSES)) :
         LET prediction_result == KerasPrediction(KerasModelPredict(raw))
         IN  thr' = [thr EXCEPT
               ![t].pc = "done",
               ![t].image = "none",
               ![t].results = IF prediction_result.ok
                              THEN <<prediction_result.dict>> ELSE <<>>,
               ![t].outputs = IF prediction_result.ok
                              THEN <<KerasModelPredict(raw)>> ELSE <<>>,
               ![t].resp = IF prediction_result.ok
                           THEN JsonResponse(200, "json_dict", prediction_result.dict)
                           ELSE ErrorResponse(500, <<"Error making prediction">>)]
    /\ running' = [running EXCEPT ![t] = @ - 1]
    /\ UNCHANGED <<script, model, disk, ckpt, loaded, globals, dash, train, pre, allowed>>

-----------------------------------------------------------------------------
(* The weather lookup.  JSON values are tagged: dict, str, num, list. *)

JDict(f) == [t |-> "dict", v |-> f]
JStr(s)  == [t |-> "str", v |-> s]
JNum(n)  == [t |-> "num", v |-> n]
JList    == [t |-> "list", v |-> <<>>]
Raised(e) == [t |-> "raise", v |-> e]

\* x[k] in Python: KeyError for a dict without k, TypeError for a value that
\* is no dict; an exception raised earlier in the expression propagates
Sub(x, k) ==
    IF x.t = "raise" THEN x
    ELSE IF x.t = "dict"
         THEN (IF k \in DOMAIN x.v THEN x.v[k] ELSE Raised("KeyError"))
         ELSE Raised("TypeError")

\* a variant that looks for "rain" in the text as it is, without lower()
RainInAsWritten(x) ==
    IF x.t = "raise" THEN x
    ELSE IF x.t = "str"
         THEN [t |-> "bool", v |-> HasSubstring(x.v, <<"r","a","i","n">>)]
         ELSE Raised("AttributeError")

\* "rain" in x.lower()
RainIn(x) ==
    IF x.t = "raise" THEN x
    ELSE IF x.t = "str"
         THEN [t |-> "bool", v |-> HasSubstring(Lower(x.v), <<"r","a","i","n">>)]
         ELSE Raised("AttributeError")

\* the body of a 200 answer of api.weatherapi.com
Current(temp_c, humidity, condition) ==
    JDict("current" :>
            JDict(("temp_c" :> temp_c) @@ ("humidity" :> humidity)
                    @@ ("condition" :> condition)))

Condition(text) == JDict("text" :> text)

\* bodies the external service may send, by number: three full answers (rain
\* in lower case, none, rain in upper case), a missing key, a condition that
\* is no dict, a text that is no string, an empty dict, an error with and
\* without a message, an error that is no dict, a body that is no dict.
\* Body 12, a full answer with rain at a humidity of 80, is sent only while
\* the dashboard page waits (DashOutcomes).
WeatherBodyIds == 1..11

WeatherBody(k) ==
    CASE k = 1 -> Current(JNum(24), JNum(85),
                          Condition(JStr(<<"L","i","g","h","t"," ","r","a","i","n">>)))
      [] k = 2 -> Current(JNum(30), JNum(80), Condition(JStr(<<"S","u","n","n","y">>)))
      [] k = 3 -> Current(JNum(19), JNum(91),
                          Condition(JStr(<<"h","e","a","v","y"," ","R","A","I","N">>)))
      [] k = 4 -> JDict("current" :>
                     JDict(("temp_c" :> JNum(24))
                             @@ ("condition" :> Condition(JStr(<<"S","u","n","n","y">>)))))
      [] k = 5 -> Current(JNum(24), JNum(85), JStr(<<"S","u","n","n","y">>))
      [] k = 6 -> Current(JNum(24), JNum(85), Condition(JNum(1000)))
      [] k = 7 -> JDict(<<>>)
      [] k = 8 -> JDict("error" :>
                     JDict(("code" :> JNum(1006))
                             @@ ("message" :> JStr(<<"No matching location found.">>))))
      [] k = 9 -> JDict("error" :> JDict("code" :> JNum(1006)))
      [] k = 10 -> JDict("error" :> JStr(<<"bad key">>))
      [] k = 11 -> JList
      [] k = 12 -> Current(JNum(21), JNum(80),
                           Condition(JStr(<<"P","a","t","c","h","y"," ","r","a","i","n">>)))

\* what requests.get and res.json() can do: raise, answer with a body that is
\* no JSON, or answer with a status and a JSON body
ExternalOutcomes ==
    { [exc |-> e, json |-> FALSE, status |-> 0, body |-> 11] :
          e \in {"ConnectionError", "Timeout"} }
      \cup { [exc |-> "none", json |-> FALSE, status |-> st, body |-> 11] :
                st \in {200, 502} }
      \cup { [exc |-> "none", json |-> TRUE, status |-> st, body |-> k] :
                st \in {200, 400, 401}, k \in WeatherBodyIds }

\* test2_0.py: requests.get(url, timeout=10), in seconds
VIT_WEATHER_TIMEOUT == 10

\* the timeout requests.get is called with; 0 stands for none (nuuuttsss.py
\* passes no timeout, and requests then waits without limit)
RequestTimeout(s) == IF s = "vit" THEN VIT_WEATHER_TIMEOUT ELSE 0

\* the message when the error response has none
DefaultWeatherError(s) ==
    IF s = "vit" THEN <<"Weather fetch failed">> ELSE <<"Failed to fetch weather">>

\* a variant that does not look at res.status_code
get_weather_any_status(s, out) ==
    IF out.exc # "none" THEN [error |-> JStr(<<out.exc>>)]
    ELSE IF ~out.json THEN [error |-> JStr(<<"JSONDecodeError">>)]
    ELSE LET current  == Sub(WeatherBody(out.body), "current")
             temp     == Sub(current, "temp_c")
             humidity == Sub(current, "humidity")
             text     == Sub(Sub(current, "condition"), "text")
             rain     == RainIn(text)
         IN  IF temp.t = "raise" THEN [error |-> JStr(<<temp.v>>)]
             ELSE IF humidity.t = "raise" THEN [error |-> JStr(<<humidity.v>>)]
             ELSE IF text.t = "raise" THEN [error |-> JStr(<<text.v>>)]
             ELSE IF rain.t = "raise" THEN [error |-> JStr(<<rain.v>>)]
             ELSE [temp |-> temp, humidity |-> humidity, weather |-> text,
                   rain |-> rain]

\* get_weather from the return of requests.get on: the try body and the except
get_weather(s, out) ==
    IF out.exc # "none" THEN [error |-> JStr(<<out.exc>>)]
    ELSE IF ~out.json THEN [error |-> JStr(<<"JSONDecodeError">>)]
    ELSE IF out.status = 200
    THEN LET current  == Sub(WeatherBody(out.body), "current")
             temp     == Sub(current, "temp_c")
             humidity == Sub(current, "humidity")
             text     == Sub(Sub(current, "condition"), "text")
             rain     == RainIn(text)
         IN  IF temp.t = "raise" THEN [error |-> JStr(<<temp.v>>)]
             ELSE IF humidity.t = "raise" THEN [error |-> JStr(<<humidity.v>>)]
             ELSE IF text.t = "raise" THEN [error |-> JStr(<<text.v>>)]
             ELSE IF rain.t = "raise" THEN [error |-> JStr(<<rain.v>>)]
             ELSE [temp |-> temp, humidity |-> humidity, weather |-> text,
                   rain |-> rain]
    ELSE \* data.get("error", {}).get("message", default)
         LET data == WeatherBody(out.body) IN
         IF data.t # "dict" THEN [error |-> JStr(<<"AttributeError">>)]
         ELSE LET err == IF "error" \in DOMAIN data.v
                         THEN data.v["error"] ELSE JDict(<<>>)
              IN  IF err.t # "dict" THEN [error |-> JStr(<<"AttributeError">>)]
                  ELSE IF "message" \in DOMAIN err.v
                       THEN [error |-> err.v["message"]]
                       ELSE [error |-> JStr(DefaultWeatherError(s))]

\* the weather view of each script, given what get_weather returned
WeatherView(s, weather_data) ==
    IF s = "vit" THEN JsonResponse(200, "json_dict", weather_data)
    ELSE IF "error" \in DOMAIN weather_data
         THEN JsonResponse(400, "json_dict", [error |-> weather_data["error"]])
         ELSE JsonResponse(200, "json_dict", weather_data)

\* GET /weather: the view calls get_weather, which calls requests.get
WeatherRequest(t) ==
    /\ thr[t].pc = "idle"
    /\ thr' = [thr EXCEPT ![t] = [Idle EXCEPT !.pc = "calling", !.route = "weather",
                                              !.calls = 1,
                                              !.again = (thr[t].last = "weather")]]
    /\ UNCHANGED <<script, model, disk, running, ckpt, loaded, globals, dash, train, pre, allowed>>

\* a variant that calls the external service once more when the call raised
ExternalAnswersRetry(t) ==
    /\ thr[t].pc = "calling"
    /\ \E out \in ExternalOutcomes :
         IF out.exc # "none" /\ thr[t].calls < 2
         THEN thr' = [thr EXCEPT ![t].calls = @ + 1]
         ELSE thr' = [thr EXCEPT ![t].pc = "done",
                                 ![t].outcome = out,
                                 ![t].resp = WeatherView(script, get_weather(script, out))]
    /\ UNCHANGED <<script, model, disk, running, ckpt, loaded, globals, dash, train, pre, allowed>>

\* the external service answers, or the connection fails: get_weather returns
\* at once in both cases
ExternalAnswers(t) ==
    /\ thr[t].pc = "calling"
    /\ \E out \in ExternalOutcomes :
         thr' = [thr EXCEPT ![t].pc = "done",
                            ![t].outcome = out,
                            ![t].resp = WeatherView(script, get_weather(script, out))]
    /\ UNCHANGED <<script, model, disk, running, ckpt, loaded, globals, dash, train, pre, allowed>>

\* a second passes without a byte from the external service; only a call
\* made with a timeout counts them
Tick(t) ==
    /\ thr[t].pc = "calling"
    /\ thr[t].waited < RequestTimeout(script)
    /\ thr' = [thr EXCEPT ![t].waited = @ + 1]
    /\ UNCHANGED <<script, model, disk, running, ckpt, loaded, globals, dash, train, pre, allowed>>

\* requests raises Timeout once the timeout has passed; get_weather's except
\* turns it into an error payload
TimeoutExpires(t) ==
    /\ thr[t].pc = "calling"
    /\ RequestTimeout(script) > 0
    /\ thr[t].waited = RequestTimeout(script)
    /\ thr' = [thr EXCEPT
          ![t].pc = "done",
          ![t].outcome = [exc |-> "Timeout", json |-> FALSE, status |-> 0, body |-> 0],
          ![t].resp = WeatherView(script,
                        get_weather(script, [exc |-> "Timeout", json |-> FALSE,
                                             status |-> 0, body |-> 0]))]
    /\ UNCHANGED <<script, model, disk, running, ckpt, loaded, globals, dash, train, pre, allowed>>

\* home / index: render_template_string
Home(t) ==
    /\ thr[t].pc = "idle"
    /\ thr' = [thr EXCEPT ![t] =
                 [Idle EXCEPT !.pc = "done", !.route = "home",
                              !.resp = JsonResponse(200, "html", <<>>)]]
    /\ UNCHANGED <<script, model, disk, running, ckpt, loaded, globals, dash, train, pre, allowed>>

\* the response is sent and the thread takes the next request
Deliver(t) ==
    /\ thr[t].pc = "done"
    /\ thr' = [thr EXCEPT ![t] = [Idle EXCEPT !.last = thr[t].route]]
    /\ UNCHANGED <<script, model, disk, running, ckpt, loaded, globals, dash, train, pre, allowed>>

-----------------------------------------------------------------------------
(* The dashboard page each script serves: the JavaScript that keeps the      *)
(* history of predictions.  One page, one analysis in flight at a time.      *)

\* most entries of the history in the runs
MaxHistory == 2

\* the decimal digits, as JSON.stringify writes a number and JSON.parse reads it
Digits == <<"0", "1", "2", "3", "4", "5", "6", "7", "8", "9">>

RECURSIVE NumToText(_)
NumToText(n) ==
    IF n < 10 THEN <<Digits[n + 1]>>
    ELSE Append(NumToText(n \div 10), Digits[(n % 10) + 1])

RECURSIVE TextToNum(_)
TextToNum(s) ==
    IF s = <<>> THEN 0
    ELSE TextToNum(SubSeq(s, 1, Len(s) - 1)) * 10
           + ((CHOOSE d \in 1..10 : Digits[d] = s[Len(s)]) - 1)

\* JSON.stringify(history) of nuuuttsss.py's page: every entry with its six
\* keys, the numbers written as text
JSONStringify(history) ==
    [i \in 1..Len(history) |->
        [label           |-> history[i].label,
         confidence      |-> NumToText(history[i].confidence),
         all_confidences |-> [j \in 1..Len(history[i].all_confidences) |->
                                 NumToText(history[i].all_confidences[j])],
         causes          |-> history[i].causes,
         cure            |-> history[i].cure,
         prevention      |-> history[i].prevention]]

\* JSON.parse(saved)
JSONParse(text) ==
    [i \in 1..Len(text) |->
        [label           |-> text[i].label,
         confidence      |-> TextToNum(text[i].confidence),
         all_confidences |-> [j \in 1..Len(text[i].all_confidences) |->
                                 TextToNum(text[i].all_confidences[j])],
         causes          |-> text[i].causes,
         cure            |-> text[i].cure,
         prevention      |-> text[i].prevention]]

\* localStorage without the key 'groundnutHistory' (getItem returns null)
NoItem == [present |-> FALSE, text |-> <<>>]

\* the File objects the user can pick: the browser sends the base name
DashFiles ==
    { Upload(<<"a",".","p","n","g">>, "imgA"),
      Upload(<<"c",".","P","N","G">>, "junk") }

\* the page after the load event on a browser with the given localStorage.
\* reloaded says that the page was loaded again and has not changed the
\* history since, before is the history it held when it was loaded again,
\* changed says that an operation has changed the history since the load,
\* weather is the /weather answer the cards in shown were made with; the page
\* never reads them.
FreshPage(storage) ==
    [pc |-> "ready", history |-> <<>>, storage |-> storage, current |-> <<>>,
     sent |-> <<>>, data |-> <<>>, shown |-> <<>>, weather |-> <<>>,
     before |-> <<>>, reloaded |-> FALSE, changed |-> FALSE]

\* a variant of saveHistory and clearHistory that forgets to write
saveHistoryNot(history, storage) == storage

\* nuuuttsss.py saveHistory: localStorage.setItem; test2_0.py's page has no
\* such function and never touches localStorage
saveHistory(history, storage) ==
    [present |-> TRUE, text |-> JSONStringify(history)]

\* nuuuttsss.py loadHistory: the history after it ran
loadHistory(storage) ==
    IF storage.present THEN JSONParse(storage.text) ELSE <<>>

\* what POST /predict of test2_0.py answers for one file of a list whose
\* files were all saved: the entry appended to results
VitEntryAnswers(file) ==
    IF ~(Truthy(file) /\ vit_allowed_file(file.filename))
    THEN { [error |-> <<"Invalid file: ">> \o file.filename] }
    ELSE IF ~Decodable(file.content)
         THEN { [error |-> <<"Failed to process image">>] }
         ELSE { VitPrediction(raw) : raw \in DashRaws(Len(globals.classes)) }

\* the JSON bodies POST /predict of test2_0.py can answer for the files sent
VitAnswers(files) ==
    { body \in [1..Len(files) -> UNION { VitEntryAnswers(files[i]) : i \in 1..Len(files) }] :
        \A i \in 1..Len(files) : body[i] \in VitEntryAnswers(files[i]) }

\* the JSON bodies POST /predict of nuuuttsss.py can answer for the file sent
KerasAnswers(file) ==
    IF file.filename = <<>> THEN { [error |-> <<"No file selected">>] }
    ELSE IF ~keras_allowed_file(file.filename)
    THEN { [error |-> <<"Invalid file type">>] }
    ELSE IF ~Decodable(file.content)
    THEN { [error |-> <<"Error processing image">>] }
    ELSE IF model = "none"
    THEN { [error |-> <<"Error making prediction">>] }
    ELSE { KerasPrediction(KerasModelPredict(raw)).dict :
              raw \in DashRaws(Len(globals.classes)) }

\* what the external service does while the page waits for /weather
DashOutcomes ==
    { [exc |-> "ConnectionError", json |-> FALSE, status |-> 0, body |-> 11] }
      \cup { [exc |-> "none", json |-> TRUE, status |-> 200, body |-> k] :
                k \in {2, 3, 12} }

\* the JSON bodies GET /weather can answer
WeatherAnswers ==
    { WeatherView(script, get_weather(script, out)).body : out \in DashOutcomes }

\* a variant that alerts from a humidity of 80 on
WeatherAlertFrom80(weather, data) ==
    LET humid == /\ "humidity" \in DOMAIN weather
                 /\ weather.humidity.t = "num"
                 /\ weather.humidity.v >= 80
        rainy == /\ "rain" \in DOMAIN weather
                 /\ weather.rain.v = TRUE
        alerts == data.weather_alerts
    IN  IF humid /\ "high_humidity" \in DOMAIN alerts
        THEN alerts["high_humidity"]
        ELSE IF rainy /\ "high_rain" \in DOMAIN alerts
             THEN alerts["high_rain"]
             ELSE ""

\* the alert both pages pick: weather.humidity > 80 and an alert text under
\* high_humidity, else weather.rain and a text under high_rain, else none
WeatherAlert(weather, data) ==
    LET humid == /\ "humidity" \in DOMAIN weather
                 /\ weather.humidity.t = "num"
                 /\ weather.humidity.v > 80
        rainy == /\ "rain" \in DOMAIN weather
                 /\ weather.rain.v = TRUE
        alerts == data.weather_alerts
    IN  IF humid /\ "high_humidity" \in DOMAIN alerts
        THEN alerts["high_humidity"]
        ELSE IF rainy /\ "high_rain" \in DOMAIN alerts
             THEN alerts["high_rain"]
             ELSE ""

\* the file lists the user can select: test2_0.py's inputs are multiple (the
\* FileList of a picker holds distinct files), nuuuttsss.py's previewImage
\* keeps one file
Selections ==
    IF script = "vit"
    THEN { fs \in UNION { [1..k -> DashFiles] : k \in 0..MaxFiles } :
             \A i, j \in 1..Len(fs) : i # j => fs[i] # fs[j] }
    ELSE [1..1 -> DashFiles]

\* test2_0.py results.forEach from entry i on: an error entry is shown and
\* skipped; for a prediction URL.createObjectURL(currentFiles[i]) throws when
\* currentFiles has no such file, which leaves the loop with the entries
\* pushed so far; else the entry is pushed and its card shown.  The object
\* URL of an entry is the file it was made from; the timestamp is left out.
RECURSIVE VitForEach(_, _, _, _, _, _)
VitForEach(results, i, current, weather, history, shown) ==
    IF i > Len(results) THEN [history |-> history, shown |-> shown, threw |-> FALSE]
    ELSE IF "error" \in DOMAIN results[i]
    THEN VitForEach(results, i + 1, current, weather, history,
                    Append(shown, [kind |-> "error", label |-> "", alert |-> ""]))
    ELSE IF i > Len(current)
    THEN [history |-> history, shown |-> shown, threw |-> TRUE]
    ELSE VitForEach(results, i + 1, current, weather,
                    Append(history,
                           [predicted_class |-> results[i].predicted_class,
                            confidence      |-> results[i].confidence,
                            all_confidences |-> results[i].all_confidences,
                            imgUrl          |-> current[i]]),
                    Append(shown, [kind  |-> "card",
                                   label |-> results[i].predicted_class,
                                   alert |-> WeatherAlert(weather, results[i])]))

InitDash ==
    /\ script \in {"vit", "keras"}
    /\ model \in (IF script = "vit" THEN {"loaded"} ELSE {"loaded", "none"})
    /\ disk = <<>>
    /\ thr = [t \in Threads |-> Idle]
    /\ running = [t \in Threads |-> 0]
    /\ ckpt = <<>>
    /\ loaded = NotLoaded
    /\ globals = StartupGlobals(script)
    /\ allowed = <<>>
    /\ dash = FreshPage(NoItem)
    /\ train = <<>>
    /\ pre = <<>>

\* the change handlers of the file inputs
DashSelect ==
    /\ \E fs \in Selections : dash' = [dash EXCEPT !.current = fs]
    /\ UNCHANGED <<script, model, disk, thr, running, ckpt, loaded, globals, train, pre, allowed>>

\* analyzeImages / uploadImage up to the fetch of /predict
DashAnalyze ==
    /\ dash.pc = "ready"
    /\ dash.current # <<>>
    /\ Len(dash.history) + Len(dash.current) <= MaxHistory
    /\ dash' = [dash EXCEPT !.pc = "predict", !.sent = dash.current]
    /\ UNCHANGED <<script, model, disk, thr, running, ckpt, loaded, globals, train, pre, allowed>>

\* /predict answers with JSON.  test2_0.py's page goes on to fetch /weather
\* whatever the results are; nuuuttsss.py's page shows data.error and stops,
\* else fetches /weather
DashPredictAnswer ==
    /\ dash.pc = "predict"
    /\ IF script = "vit"
       THEN \E body \in VitAnswers(dash.sent) :
                dash' = [dash EXCEPT !.pc = "weather", !.data = body]
       ELSE \E data \in KerasAnswers(dash.sent[1]) :
                IF "error" \in DOMAIN data
                THEN dash' = [dash EXCEPT
                        !.pc = "ready", !.sent = <<>>, !.weather = <<>>,
                        !.shown = << [kind |-> "error", label |-> "", alert |-> ""] >>]
                ELSE dash' = [dash EXCEPT !.pc = "weather", !.data = <<data>>]
    /\ UNCHANGED <<script, model, disk, thr, running, ckpt, loaded, globals, train, pre, allowed>>

\* a fetch rejects or its body is no JSON: the catch of analyzeImages alerts,
\* the catch of uploadImage shows the error
DashFetchFails ==
    /\ dash.pc \in {"predict", "weather"}
    /\ dash' = [dash EXCEPT
          !.pc = "ready", !.data = <<>>, !.sent = <<>>,
          !.weather = IF script = "vit" THEN @ ELSE <<>>,
          !.shown = IF script = "vit" THEN @
                    ELSE << [kind |-> "error", label |-> "", alert |-> ""] >>]
    /\ UNCHANGED <<script, model, disk, thr, running, ckpt, loaded, globals, train, pre, allowed>>

\* /weather answers with JSON: test2_0.py's page runs results.forEach;
\* nuuuttsss.py's page pushes the entry and calls saveHistory
DashWeatherAnswer ==
    /\ dash.pc = "weather"
    /\ \E weather \in WeatherAnswers :
         IF script = "vit"
         THEN LET r == VitForEach(dash.data, 1, dash.current, weather,
                                  dash.history, <<>>)
              IN  dash' = [dash EXCEPT
                     !.pc = "ready", !.data = <<>>, !.sent = <<>>,
                     !.history = r.history,
                     !.shown = r.shown,
                     !.weather = weather,
                     !.changed = @ \/ r.history # dash.history,
                     !.reloaded = @ /\ r.history = dash.history,
                     !.before = IF r.history = dash.history THEN @ ELSE <<>>]
         ELSE LET data == dash.data[1]
                  history == Append(dash.history,
                                [label           |-> data.predicted_class,
                                 confidence      |-> data.confidence,
                                 all_confidences |-> data.all_confidences,
                                 causes          |-> data.causes,
                                 cure            |-> data.cure,
                                 prevention      |-> data.prevention])
              IN  dash' = [dash EXCEPT
                     !.pc = "ready", !.data = <<>>, !.sent = <<>>,
                     !.history = history,
                     !.storage = saveHistory(history, dash.storage),
                     !.shown = << [kind  |-> "card",
                                   label |-> data.predicted_class,
                                   alert |-> WeatherAlert(weather, data)] >>,
                     !.weather = weather,
                     !.changed = TRUE,
                     !.reloaded = FALSE,
                     !.before = <<>>]
    /\ UNCHANGED <<script, model, disk, thr, running, ckpt, loaded, globals, train, pre, allowed>>

\* test2_0.py clearAll (confirmed) / nuuuttsss.py clearHistory
DashClear ==
    /\ dash' = [dash EXCEPT
          !.history = <<>>,
          !.storage = IF script = "vit" THEN @ ELSE saveHistory(<<>>, dash.storage),
          !.current = <<>>,
          !.shown = <<>>,
          !.weather = <<>>,
          !.changed = TRUE,
          !.reloaded = FALSE,
          !.before = <<>>]
    /\ UNCHANGED <<script, model, disk, thr, running, ckpt, loaded, globals, train, pre, allowed>>

\* the user loads the page again: the script starts with history = [] and,
\* in nuuuttsss.py, window.onload calls loadHistory
DashReload ==
    /\ dash' = [FreshPage(dash.storage) EXCEPT
          !.history = IF script = "vit" THEN <<>> ELSE loadHistory(dash.storage),
          !.before = dash.history,
          !.reloaded = TRUE]
    /\ UNCHANGED <<script, model, disk, thr, running, ckpt, loaded, globals, train, pre, allowed>>

DashNext ==
    \/ DashSelect
    \/ DashAnalyze
    \/ DashPredictAnswer
    \/ DashFetchFails
    \/ DashWeatherAnswer
    \/ DashClear
    \/ DashReload

DashSpec == InitDash /\ [][DashNext]_vars

-----------------------------------------------------------------------------
(* vitmodel.py: the training script.  The dataset is not part of the         *)
(* repository: its class folders are taken to carry the labels of CLASS_NAMES *)
(* (or, for a second dataset, those of CLASSES), listed by os.scandir in any  *)
(* order.                                                                     *)

\* most images of the training set
MaxImages == 20

BATCH_SIZE == 4
EPOCHS == 10
ACCUMULATION_STEPS == 4

\* the characters of a label
Chars(label) ==
    CASE   label = "ALTERNARIA LEAF SPOT" ->
           <<"A","L","T","E","R","N","A","R","I","A"," ","L","E","A","F"," ","S","P","O","T">>
      [] label = "ROSETTE" ->
           <<"R","O","S","E","T","T","E">>
      [] label = "early_leaf_spot_1" ->
           <<"e","a","r","l","y","_","l","e","a","f","_","s","p","o","t","_","1">>
      [] label = "early_rust_1" ->
           <<"e","a","r","l","y","_","r","u","s","t","_","1">>
      [] label = "healthy_leaf_1" ->
           <<"h","e","a","l","t","h","y","_","l","e","a","f","_","1">>
      [] label = "late_leaf_spot_1" ->
           <<"l","a","t","e","_","l","e","a","f","_","s","p","o","t","_","1">>
      [] label = "nutrition_deficiency_1" ->
           <<"n","u","t","r","i","t","i","o","n","_","d","e","f","i","c","i","e","n","c","y","_","1">>
      [] label = "rust_1" ->
           <<"r","u","s","t","_","1">>

\* the characters of the labels in the order of their code points, which is
\* the order Python compares str by
CodePoints ==
    << " ", "1", "A", "E", "F", "I", "L", "N", "O", "P", "R", "S", "T", "_", "a", "c", "d", "e", "f", "h", "i", "l", "n", "o", "p", "r", "s", "t", "u", "y" >>

\* a variant that compares letters without regard to case
OrdIgnoreCase(c) ==
    LET l == IF c \in {"A", "E", "F", "I", "L", "N", "O", "P", "R", "S", "T"}
             THEN CHOOSE x \in {"a", "e", "f", "i", "l", "n", "o", "p", "r", "s", "t"} :
                     <<c, x>> \in { <<"A","a">>, <<"E","e">>, <<"F","f">>, <<"I","i">>,
                                    <<"L","l">>, <<"N","n">>, <<"O","o">>, <<"P","p">>,
                                    <<"R","r">>, <<"S","s">>, <<"T","t">> }
             ELSE c
    IN  CHOOSE i \in 1..Len(CodePoints) : CodePoints[i] = l

\* ord(c)
Ord(c) == CHOOSE i \in 1..Len(CodePoints) : CodePoints[i] = c

\* a < b for str
RECURSIVE StrLess(_, _)
StrLess(a, b) ==
    IF b = <<>> THEN FALSE
    ELSE IF a = <<>> THEN TRUE
    ELSE IF Ord(Head(a)) # Ord(Head(b)) THEN Ord(Head(a)) < Ord(Head(b))
    ELSE StrLess(Tail(a), Tail(b))

\* sorted(names): insertion of each name into the sorted list of those before
RECURSIVE Insert(_, _)
Insert(name, sorted) ==
    IF sorted = <<>> THEN <<name>>
    ELSE IF StrLess(name, Head(sorted)) THEN <<name>> \o sorted
    ELSE <<Head(sorted)>> \o Insert(name, Tail(sorted))

RECURSIVE Sorted(_)
Sorted(names) ==
    IF names = <<>> THEN <<>> ELSE Insert(Head(names), Sorted(Tail(names)))

\* a list from position k on, followed by its start
Rotate(seq, k) == [i \in 1..Len(seq) |-> seq[((i + k - 1) % Len(seq)) + 1]]

Reverse(seq) == [i \in 1..Len(seq) |-> seq[Len(seq) + 1 - i]]

\* the orders in which os.scandir may list the class folders of a dataset
ScanOrders(labels) ==
    LET names == [i \in 1..Len(labels) |-> Chars(labels[i])]
    IN  { names, Reverse(names), Rotate(names, 3), Rotate(Reverse(names), 2) }

\* len(train_loader): the batches of a dataset of n images
NumBatches(n) == (n + BATCH_SIZE - 1) \div BATCH_SIZE

\* the training run before datasets.ImageFolder is called.  grad holds the
\* batches (epoch, step) whose gradient is summed in .grad, steps the set of
\* batches each optimizer.step applied, dropped those zero_grad removed
\* without a step.
InitTrain ==
    /\ script = "vit"
    /\ model = "loaded"
    /\ disk = <<>>
    /\ thr = <<>>
    /\ running = <<>>
    /\ ckpt = <<>>
    /\ loaded = NotLoaded
    /\ globals = StartupGlobals(script)
    /\ allowed = <<>>
    /\ dash = <<>>
    /\ pre = <<>>
    /\ \E labels \in {CLASS_NAMES, CLASSES} :
       \E scan \in ScanOrders(labels) :
       \E n \in 1..MaxImages :
          train = [pc |-> "start", scan |-> scan, images |-> n,
                   classes |-> <<>>, num_classes |-> 0,
                   epoch |-> 0, step |-> 0,
                   grad |-> {}, steps |-> <<>>, dropped |-> {},
                   saved_labels |-> 0, served_labels |-> 0]

\* datasets.ImageFolder and len(train_data.classes)
TrainLoadData ==
    /\ train.pc = "start"
    /\ train' = [train EXCEPT !.pc = "epoch",
                              !.classes = Sorted(train.scan),
                              !.num_classes = Len(train.scan)]
    /\ UNCHANGED <<script, model, disk, thr, running, ckpt, loaded, globals, dash, pre, allowed>>

\* the head of the epoch loop: model.train(), optimizer.zero_grad()
TrainEpochStart ==
    /\ train.pc = "epoch"
    /\ train.epoch < EPOCHS
    /\ train' = [train EXCEPT !.pc = "batches",
                              !.step = 0,
                              !.dropped = @ \cup train.grad,
                              !.grad = {}]
    /\ UNCHANGED <<script, model, disk, thr, running, ckpt, loaded, globals, dash, pre, allowed>>

\* one pass of the batch loop: forward, loss.backward(), and after every
\* ACCUMULATION_STEPS-th batch optimizer.step() and optimizer.zero_grad()
TrainBatch ==
    /\ train.pc = "batches"
    /\ train.step < NumBatches(train.images)
    /\ LET grad == train.grad \cup { <<train.epoch, train.step>> }
       IN  IF (train.step + 1) % ACCUMULATION_STEPS = 0
           THEN train' = [train EXCEPT !.step = @ + 1,
                                       !.steps = Append(@, grad),
                                       !.grad = {}]
           ELSE train' = [train EXCEPT !.step = @ + 1,
                                       !.grad = grad]
    /\ UNCHANGED <<script, model, disk, thr, running, ckpt, loaded, globals, dash, pre, allowed>>

\* the batch loop is over: the validation pass, then the next epoch
TrainValidate ==
    /\ train.pc = "batches"
    /\ train.step = NumBatches(train.images)
    /\ train' = [train EXCEPT !.pc = "epoch", !.epoch = @ + 1]
    /\ UNCHANGED <<script, model, disk, thr, running, ckpt, loaded, globals, dash, pre, allowed>>

\* torch.save(model.state_dict(), ...): the classifier head has num_classes
\* outputs
TrainSave ==
    /\ train.pc = "epoch"
    /\ train.epoch = EPOCHS
    /\ train' = [train EXCEPT !.pc = "saved", !.saved_labels = train.num_classes]
    /\ UNCHANGED <<script, model, disk, thr, running, ckpt, loaded, globals, dash, pre, allowed>>

\* test2_0.py at start: a network with len(CLASS_NAMES) outputs, and
\* load_state_dict, which raises when the checkpoint's head has another size
ServeCheckpoint ==
    /\ train.pc = "saved"
    /\ IF train.saved_labels = Len(CLASS_NAMES)
       THEN train' = [train EXCEPT !.pc = "serving",
                                   !.served_labels = Len(CLASS_NAMES)]
       ELSE train' = [train EXCEPT !.pc = "load_failed"]
    /\ UNCHANGED <<script, model, disk, thr, running, ckpt, loaded, globals, dash, pre, allowed>>

TrainNext ==
    \/ TrainLoadData
    \/ TrainEpochStart
    \/ TrainBatch
    \/ TrainValidate
    \/ TrainSave
    \/ ServeCheckpoint

TrainSpec == InitTrain /\ [][TrainNext]_vars

-----------------------------------------------------------------------------
(* The preprocessing pipelines: preprocess_image of nuuuttsss.py, and         *)
(* Image.open(...).convert("RGB") followed by transform of test2_0.py.  An    *)
(* image is its mode and size; an array or tensor is its shape.               *)

\* the bands of a PIL mode
Bands(mode) ==
    CASE mode = "1" -> 1 [] mode = "L" -> 1 [] mode = "P" -> 1
      [] mode = "LA" -> 2 [] mode = "RGB" -> 3
      [] mode = "RGBA" -> 4 [] mode = "CMYK" -> 4

\* the images PIL can open: every mode, sizes from one pixel to more than the
\* target on either side
Images ==
    [mode : {"1", "L", "P", "LA", "RGB", "RGBA", "CMYK"},
     width : {1, 224, 640}, height : {1, 224, 480}]

\* a variant of convert that leaves the image as it was opened
ConvertNot(image, mode) == image

\* Image.convert(mode)
Convert(image, mode) == [image EXCEPT !.mode = mode]

\* Image.resize((width, height)) and transforms.Resize((height, width))
Resize(image, width, height) == [image EXCEPT !.width = width, !.height = height]

\* np.array(image): height x width x bands
NpArray(image) == <<image.height, image.width, Bands(image.mode)>>

\* transforms.ToTensor(): bands x height x width
ToTensor(image) == <<Bands(image.mode), image.height, image.width>>

\* transforms.Normalize(mean=[0.5]*3, std=[0.5]*3): the tensor must have as
\* many channels as mean has entries, else it raises
NormalizeOk(shape) == shape[1] = 3

\* np.expand_dims(a, axis=0) and Tensor.unsqueeze(0)
ExpandDims(shape) == <<1>> \o shape

InitPre ==
    /\ script \in {"vit", "keras"}
    /\ model = "loaded"
    /\ disk = <<>>
    /\ thr = <<>>
    /\ running = <<>>
    /\ ckpt = <<>>
    /\ loaded = NotLoaded
    /\ globals = StartupGlobals(script)
    /\ allowed = <<>>
    /\ dash = <<>>
    /\ train = <<>>
    /\ \E image \in Images :
          pre = [pc |-> "opened", input |-> image, image |-> image, shape |-> <<>>]

\* Image.open(...).convert('RGB')
PreConvert ==
    /\ pre.pc = "opened"
    /\ pre' = [pre EXCEPT !.pc = "converted", !.image = Convert(pre.image, "RGB")]
    /\ UNCHANGED <<script, model, disk, thr, running, ckpt, loaded, globals, dash, train, allowed>>

\* image.resize((224, 224)) / transforms.Resize((224, 224))
PreResize ==
    /\ pre.pc = "converted"
    /\ pre' = [pre EXCEPT !.pc = "resized", !.image = Resize(pre.image, 224, 224)]
    /\ UNCHANGED <<script, model, disk, thr, running, ckpt, loaded, globals, dash, train, allowed>>

\* np.array(image) / 255.0 in nuuuttsss.py; ToTensor and Normalize in
\* test2_0.py, where a failure is caught by predict_image
PreToArray ==
    /\ pre.pc = "resized"
    /\ IF script = "keras"
       THEN pre' = [pre EXCEPT !.pc = "array", !.shape = NpArray(pre.image)]
       ELSE IF NormalizeOk(ToTensor(pre.image))
            THEN pre' = [pre EXCEPT !.pc = "array", !.shape = ToTensor(pre.image)]
            ELSE pre' = [pre EXCEPT !.pc = "failed"]
    /\ UNCHANGED <<script, model, disk, thr, running, ckpt, loaded, globals, dash, train, allowed>>

\* np.expand_dims(image_array, axis=0) / .unsqueeze(0)
PreBatch ==
    /\ pre.pc = "array"
    /\ pre' = [pre EXCEPT !.pc = "batched", !.shape = ExpandDims(pre.shape)]
    /\ UNCHANGED <<script, model, disk, thr, running, ckpt, loaded, globals, dash, train, allowed>>

PreNext ==
    \/ PreConvert
    \/ PreResize
    \/ PreToArray
    \/ PreBatch

PreSpec == InitPre /\ [][PreNext]_vars

Next ==
    \E t \in {"t1"} :
        \/ VitPredictRequest(t, PredictRequests(Uploads, MaxFiles))
        \/ VitReject(t)
        \/ VitSave(t)
        \/ VitOpen(t)
        \/ VitForwardEnd(t)
        \/ VitRespond(t)
        \/ KerasPredictRequest(t, PredictRequests(Uploads, 1))
        \/ KerasPreprocess(t)
        \/ KerasForwardEnd(t)
        \/ WeatherRequest(t)
        \/ ExternalAnswers(t)
        \/ Tick(t)
        \/ TimeoutExpires(t)
        \/ Home(t)
        \/ Deliver(t)

Spec == Init /\ [][Next]_vars

\* Fairness of the weather lookup: while requests.get waits with a timeout the
\* seconds pass, and requests raises Timeout when the time is up.  Nothing
\* obliges the external service to answer (ExternalAnswers).
FairSpec ==
    Spec /\ \A t \in {"t1"} : WF_vars(Tick(t)) /\ WF_vars(TimeoutExpires(t))

\* Two handler threads of one process (app.run starts the threaded development
\* server), each handling POST /predict with one file
ConcNext ==
    \E t \in Threads :
        \/ VitPredictRequest(t, PredictRequests(ConcUploads, 1))
        \/ VitReject(t)
        \/ VitSave(t)
        \/ VitOpen(t)
        \/ VitForwardEnd(t)
        \/ VitRespond(t)
        \/ KerasPredictRequest(t, PredictRequests(ConcUploads, 1))
        \/ KerasPreprocess(t)
        \/ KerasForwardEnd(t)
        \/ Deliver(t)

ConcSpec == Init /\ [][ConcNext]_vars

-----------------------------------------------------------------------------
(* Properties *)

\* s.endswith(suf)
EndsWith(s, suf) ==
    Len(s) >= Len(suf) /\ SubSeq(s, Len(s) - Len(suf) + 1, Len(s)) = suf

\* a name with one of the four supported extensions, in any letter case
SupportedName(filename) ==
    \E ext \in { <<"p","n","g">>, <<"j","p","g">>, <<"j","p","e","g">>,
                 <<"w","e","b","p">> } :
        EndsWith(Lower(filename), <<".">> \o ext)

IsPrediction(entry) == "predicted_class" \in DOMAIN entry
IsError(entry) == "error" \in DOMAIN entry

ClassesOf(s) == IF s = "vit" THEN CLASS_NAMES ELSE CLASSES
DiseaseInfoOf(s) == IF s = "vit" THEN VIT_DISEASE_INFO ELSE KERAS_DISEASE_INFO

\* C1: in both scripts a file whose name has an unsupported extension is never
\* given to file.save, never opened or preprocessed and never classified, and
\* what the response reports for it is an error.
C1_UnsupportedRejected ==
    \A t \in Threads :
        thr[t].route = "predict" =>
            \A i \in 1..Len(thr[t].files) :
                ~SupportedName(thr[t].files[i].filename) =>
                    /\ i \notin thr[t].saved \cup thr[t].opened \cup thr[t].classified
                    /\ thr[t].pc = "done" =>
                          IF thr[t].resp.kind = "json_list"
                          THEN IsError(thr[t].resp.body[i])
                          ELSE thr[t].resp.status >= 400

\* C1 happens: a multi-file response that reports an error for a file with an
\* unsupported extension and a prediction for another file
C1_Witness ==
    \E t \in Threads :
        /\ thr[t].pc = "done" /\ thr[t].resp.kind = "json_list"
        /\ \E i, j \in 1..Len(thr[t].files) :
              /\ thr[t].files[i].filename # <<>>
              /\ ~SupportedName(thr[t].files[i].filename)
              /\ IsError(thr[t].resp.body[i])
              /\ IsPrediction(thr[t].resp.body[j])

\* the external service answered 200 with a body that has every field
CompleteAnswer(out) ==
    out.exc = "none" /\ out.json /\ out.status = 200 /\ out.body \in {1, 2, 3}

\* C2: whatever the external call does (connection error, timeout, a body that
\* is no JSON, a status other than 200, a 200 body lacking a field),
\* get_weather returns a dict with an "error" key, and /weather of both scripts
\* answers with a JSON body.
C2_WeatherErrorPayload ==
    \A t \in Threads :
        (thr[t].route = "weather" /\ thr[t].pc = "done") =>
            /\ thr[t].resp.kind = "json_dict"
            /\ ~CompleteAnswer(thr[t].outcome) => IsError(thr[t].resp.body)

\* C2 happens: /weather answered after the external service sent status 200
\* and a body without the humidity field
C2_Witness ==
    \E t \in Threads :
        /\ thr[t].route = "weather" /\ thr[t].pc = "done"
        /\ thr[t].outcome.status = 200 /\ thr[t].outcome.json
        /\ thr[t].outcome.body = 4
        /\ IsError(thr[t].resp.body)

\* C3: a multi-file POST /predict that passes the request-level checks is
\* answered with a list of one entry per uploaded file, in upload order, each
\* the prediction or the error entry of its file; no file's failure aborts
\* the request.
C3_OneEntryPerFile ==
    \A t \in Threads :
        ( /\ script = "vit" /\ thr[t].route = "predict" /\ thr[t].pc = "done"
          /\ \E i \in 1..Len(thr[t].files) : thr[t].files[i].filename # <<>> )
        => /\ thr[t].resp.kind = "json_list"
           /\ Len(thr[t].resp.body) = Len(thr[t].files)
           /\ \A i \in 1..Len(thr[t].files) :
                 /\ IsPrediction(thr[t].resp.body[i]) \/ IsError(thr[t].resp.body[i])
                 /\ IsPrediction(thr[t].resp.body[i]) => i \in thr[t].classified
                 /\ ~SupportedName(thr[t].files[i].filename)
                       => IsError(thr[t].resp.body[i])

\* C4: in every successful prediction the predicted class is the class at an
\* argmax position of the classifier output, the confidence is the entry of
\* all_confidences at that position and is its maximum, and all_confidences
\* has one entry per class, ordered as the classifier output is.
C4_ArgmaxConfidence ==
    \A t \in Threads :
        \A i \in 1..Len(thr[t].results) :
            IsPrediction(thr[t].results[i]) =>
                LET r       == thr[t].results[i]
                    out     == thr[t].outputs[i]
                    classes == ClassesOf(script)
                    n       == Len(classes)
                IN  /\ Len(r.all_confidences) = n
                    /\ Len(out) = n
                    /\ \A j, k \in 1..n :
                          out[j] < out[k] => r.all_confidences[j] <= r.all_confidences[k]
                    /\ \E k \in 1..n :
                          /\ \A j \in 1..n : out[j] <= out[k]
                          /\ r.predicted_class = DiseaseInfoOf(script)[classes[k]].name
                          /\ r.confidence = r.all_confidences[k]
                          /\ \A j \in 1..n : r.all_confidences[j] <= r.confidence

\* C4 happens: a prediction from an output with two equal maxima, reported as
\* the class of the first of them
C4_Witness ==
    \E t \in Threads :
        \E i \in 1..Len(thr[t].results) :
            /\ IsPrediction(thr[t].results[i])
            /\ \E j, k \in 1..Len(thr[t].outputs[i]) :
                  /\ j < k
                  /\ thr[t].outputs[i][j] = thr[t].outputs[i][k]
                  /\ \A m \in 1..Len(thr[t].outputs[i]) :
                        thr[t].outputs[i][m] <= thr[t].outputs[i][k]
                  /\ thr[t].results[i].predicted_class
                        = DiseaseInfoOf(script)[ClassesOf(script)[j]].name

\* the state dict a checkpoint holds: the dict under "state_dict", or itself
StateDictIn(checkpoint) ==
    IF \E i \in 1..Len(checkpoint) : checkpoint[i].k = K_state_dict
    THEN (CHOOSE it \in { checkpoint[i] : i \in 1..Len(checkpoint) } :
              it.k = K_state_dict).v.d
    ELSE checkpoint

\* k without one leading "module."
WithoutPrefix(k) ==
    IF Len(k) >= 7 /\ SubSeq(k, 1, 7) = <<"m","o","d","u","l","e",".">>
    THEN [i \in 1..(Len(k) - 7) |-> k[i + 7]]
    ELSE k

\* C5: load_model unwraps a checkpoint stored under "state_dict", and for
\* every key k of the checkpoint the dict given to load_state_dict maps k
\* without its leading "module." (or k itself) to the value the checkpoint
\* had for k.
C5_EveryKeyLoaded ==
    loaded.done =>
        \A it \in { StateDictIn(ckpt)[i] : i \in 1..Len(StateDictIn(ckpt)) } :
            /\ WithoutPrefix(it.k) \in DOMAIN loaded.dict
            /\ loaded.dict[WithoutPrefix(it.k)] = it.v

\* C6: with no classifier loaded (nuuuttsss.py, model = None) no POST /predict
\* yields a prediction or runs a forward pass, one with a valid readable image
\* is answered 500 with an "error" key, and / and /weather are still served.
C6_MissingClassifier ==
    model = "none" =>
        \A t \in Threads :
            /\ running[t] = 0
            /\ thr[t].results = <<>>
            /\ (thr[t].route = "predict" /\ thr[t].pc = "done") =>
                  /\ thr[t].resp.kind = "json_dict"
                  /\ IsError(thr[t].resp.body)
                  /\ thr[t].resp.status \in {400, 500}
                  /\ ( /\ thr[t].files # <<>>
                       /\ SupportedName(thr[t].files[1].filename)
                       /\ Decodable(thr[t].files[1].content) )
                        => thr[t].resp.status = 500
            /\ thr[t].pc = "idle" => ENABLED Home(t) /\ ENABLED WeatherRequest(t)
            /\ (thr[t].route = "home" /\ thr[t].pc = "done") =>
                  thr[t].resp.status = 200 /\ thr[t].resp.kind = "html"
            /\ (thr[t].route = "weather" /\ thr[t].pc = "done") =>
                  thr[t].resp.kind = "json_dict"

\* C6 happens: the model is None and a valid, readable image was answered 500
C6_Witness ==
    \E t \in Threads :
        /\ model = "none" /\ thr[t].route = "predict" /\ thr[t].pc = "done"
        /\ thr[t].files # <<>>
        /\ SupportedName(thr[t].files[1].filename)
        /\ Decodable(thr[t].files[1].content)
        /\ thr[t].resp.status = 500

\* C7: a /weather request whose external call is pending is eventually
\* answered, also when the external service never answers.
C7_WeatherEventuallyAnswered ==
    \A t \in Threads : (thr[t].pc = "calling") ~> (thr[t].pc = "done")

\* the files a request has saved are on disk
SavedOnDisk(t) ==
    /\ thr[t].written \subseteq DOMAIN disk
    /\ thr[t].saved # {} => thr[t].written # {}

\* C8 as stated: in every step, a file that has been preprocessed or
\* classified was written to disk before, and no file on disk goes away.
C8_SavedBeforeProcessed ==
    [][ /\ \A t \in Threads :
              (thr[t].opened \cup thr[t].classified)' \subseteq (thr[t].saved)'
        /\ \A f \in DOMAIN disk : f \in DOMAIN disk' ]_vars

\* C8 amended: test2_0.py writes each accepted file to disk before it is
\* opened or classified; nuuuttsss.py writes no file at all and preprocesses
\* the upload stream; in both no step removes a file from the disk.
C8_VitSavesKerasDoesNot ==
    [][ /\ script = "vit" =>
              \A t \in Threads :
                  /\ (thr[t].opened \cup thr[t].classified)' \subseteq (thr[t].saved)'
                  /\ SavedOnDisk(t)'
        /\ script = "keras" =>
              /\ disk' = <<>>
              /\ \A t \in Threads : (thr[t].saved)' = {}
        /\ \A f \in DOMAIN disk : f \in DOMAIN disk' ]_vars

\* C8 happens: a request was answered with a prediction for one saved file and
\* an error for another, and both files are on disk
C8_Witness ==
    \E t \in Threads :
        /\ thr[t].pc = "done" /\ thr[t].resp.kind = "json_list"
        /\ SavedOnDisk(t)
        /\ \E i, j \in thr[t].saved :
              /\ i \in thr[t].opened /\ IsError(thr[t].resp.body[i])
              /\ j \in thr[t].classified /\ IsPrediction(thr[t].resp.body[j])

\* C9: every file POST /predict has written lies under the upload directory.
C9_WrittenUnderUploadDir ==
    \A f \in DOMAIN disk : UnderUploadDir(f)

\* C10 as stated: at most one forward pass is in progress in the process.
C10_OneForwardPass ==
    Cardinality({ t \in Threads : running[t] > 0 }) <= 1

\* C10 amended: each handler thread has at most one forward pass in progress,
\* and only while its request is at the model call; the passes of requests
\* handled by different threads may overlap.
C10_OneForwardPassPerRequest ==
    \A t \in Threads :
        /\ running[t] \in {0, 1}
        /\ running[t] = 1 <=> thr[t].pc = "forward"

\* C10 happens: two requests are in their forward pass at the same moment
C10_Witness ==
    \A t \in Threads : running[t] = 1 /\ thr[t].pc = "forward"

\* C11 as stated: in both pages, once an operation has changed the history the
\* stored copy equals the in-memory history, and a page loaded again holds the
\* history the page held before.
C11_HistoryInLocalStorage ==
    /\ dash.changed =>
          dash.storage.present /\ JSONParse(dash.storage.text) = dash.history
    /\ dash.reloaded => dash.history = dash.before

\* C11 amended: the page of nuuuttsss.py keeps the history in local storage
\* (after an analysis or a clearing the stored copy equals the in-memory
\* history, and loading the page again restores it); the page of test2_0.py
\* never writes local storage, and loading it again starts with an empty
\* history.
C11_KerasPageStoresHistory ==
    /\ script = "keras" =>
          /\ dash.changed =>
                /\ dash.storage.present
                /\ dash.storage.text = JSONStringify(dash.history)
                /\ JSONParse(dash.storage.text) = dash.history
          /\ dash.reloaded => dash.history = dash.before
    /\ script = "vit" =>
          /\ dash.storage = NoItem
          /\ dash.reloaded => dash.history = <<>>

\* C11 happens: the page of nuuuttsss.py was loaded again after an analysis
\* and holds the entry again
C11_Witness ==
    /\ script = "keras" /\ dash.reloaded
    /\ dash.before # <<>> /\ dash.history = dash.before
    /\ dash.storage.present

\* C12: whatever order the class folders are listed in, ImageFolder gives
\* index i to the label CLASS_NAMES has at position i, and a checkpoint that
\* test2_0.py serves has one output per entry of CLASS_NAMES.
C12_ClassIndexStable ==
    train.pc = "serving" =>
        /\ Len(train.classes) = Len(CLASS_NAMES)
        /\ \A i \in 1..Len(CLASS_NAMES) : train.classes[i] = Chars(CLASS_NAMES[i])
        /\ train.served_labels = Len(CLASS_NAMES)
        /\ train.saved_labels = Len(CLASS_NAMES)

\* C12 happens: the folders were listed in another order than CLASS_NAMES
\* and the checkpoint trained on them is served
C12_Witness ==
    /\ train.pc = "serving"
    /\ train.scan[1] # Chars(CLASS_NAMES[1])
    /\ train.classes[1] = Chars(CLASS_NAMES[1])

\* the position of a label in a class list
IndexIn(classes, label) == CHOOSE i \in 1..Len(classes) : classes[i] = label

\* the labels both scripts have
CommonLabels ==
    { CLASS_NAMES[i] : i \in 1..Len(CLASS_NAMES) }
      \cap { CLASSES[i] : i \in 1..Len(CLASSES) }

\* the disease the other script reports for output position k
OtherScriptReports(k) ==
    IF script = "vit"
    THEN InfoGet(KERAS_DISEASE_INFO, CLASSES[k]).name
    ELSE InfoGet(VIT_DISEASE_INFO, CLASS_NAMES[k]).name

\* C13: a label both scripts have has a different class index in each, and
\* for every prediction a script makes the other script reports a different
\* disease for the same output index.
C13_DifferentLabelOrders ==
    /\ \E label \in CommonLabels :
          IndexIn(CLASS_NAMES, label) # IndexIn(CLASSES, label)
    /\ \A t \in Threads :
          \A i \in 1..Len(thr[t].results) :
              IsPrediction(thr[t].results[i]) =>
                  LET k == ArgMax(thr[t].outputs[i])
                  IN  (k <= Len(CLASS_NAMES) /\ k <= Len(CLASSES)) =>
                         thr[t].results[i].predicted_class # OtherScriptReports(k)

\* C13 happens: nuuuttsss.py reports Early Rust for the output index for
\* which test2_0.py reports Alternaria Leaf Spot
C13_Witness ==
    \E t \in Threads :
        /\ script = "keras" /\ thr[t].pc = "done" /\ thr[t].results # <<>>
        /\ ArgMax(thr[t].outputs[1]) = 1
        /\ thr[t].results[1].predicted_class = "Early Rust"
        /\ OtherScriptReports(1) = "Alternaria Leaf Spot"
        /\ IndexIn(CLASS_NAMES, "early_rust_1") # IndexIn(CLASSES, "early_rust_1")

\* C14: every /weather request makes exactly one call of the external service,
\* also when the call fails and also when the thread has just answered
\* another /weather request, and its answer is made from what that call
\* returned; no other request calls the external service.
C14_OneExternalCallPerRequest ==
    \A t \in Threads :
        /\ thr[t].route = "weather" =>
              /\ thr[t].calls = 1
              /\ thr[t].pc = "done" =>
                    /\ thr[t].outcome # NoOutcome
                    /\ thr[t].resp =
                          WeatherView(script, get_weather(script, thr[t].outcome))
        /\ thr[t].route # "weather" => thr[t].calls = 0 /\ thr[t].outcome = NoOutcome

\* C14 happens: a /weather request that follows another one was answered
\* with the error of its own failed call
C14_Witness ==
    \E t \in Threads :
        /\ thr[t].route = "weather" /\ thr[t].pc = "done" /\ thr[t].again
        /\ thr[t].outcome.exc = "ConnectionError"
        /\ thr[t].calls = 1
        /\ IsError(thr[t].resp.body)

\* C15: no step of a request handler changes the loaded classifier, the class
\* list or the disease knowledge base: they keep their values of process
\* start.
C15_ReadOnlyAfterStart ==
    /\ [](globals = StartupGlobals(script))
    /\ [][model' = model /\ globals' = globals]_vars

\* C15 happens: a prediction and its advisory text were returned and the
\* class list and the knowledge base are as at process start
C15_Witness ==
    \E t \in Threads :
        /\ thr[t].route = "predict" /\ thr[t].pc = "done"
        /\ \E i \in 1..Len(thr[t].results) : IsPrediction(thr[t].results[i])
        /\ model = "loaded"
        /\ globals = StartupGlobals(script)

\* C16: for an image of any size and mode preprocessing does not fail, and
\* its result is one batch of one 224x224 image with 3 channels (channels
\* last in nuuuttsss.py, channels first in test2_0.py).
C16_FixedShape ==
    /\ pre.pc # "failed"
    /\ pre.pc = "batched" =>
          pre.shape = IF script = "keras" THEN <<1, 224, 224, 3>>
                      ELSE <<1, 3, 224, 224>>

\* C16 happens: a grayscale image that is not square was preprocessed
C16_Witness ==
    /\ pre.pc = "batched"
    /\ pre.input.mode = "L" /\ pre.input.width # pre.input.height
    /\ Len(pre.shape) = 4

\* C17: the all_confidences of every prediction, of either script, sum to 1
\* within the rounding of one unit (1/10000) per entry.
C17_ProbabilitiesSumToOne ==
    \A t \in Threads :
        \A i \in 1..Len(thr[t].results) :
            IsPrediction(thr[t].results[i]) =>
                LET p == thr[t].results[i].all_confidences
                IN  /\ \A j \in 1..Len(p) : p[j] >= 0 /\ p[j] <= 10000
                    /\ SumSeq(p) <= 10000
                    /\ SumSeq(p) >= 10000 - Len(p)

\* C17 happens: test2_0.py returned a vector with two equal largest entries
\* whose sum is 1 up to rounding
C17_Witness ==
    \E t \in Threads :
        /\ script = "vit" /\ thr[t].pc = "done" /\ thr[t].resp.kind = "json_list"
        /\ \E i \in 1..Len(thr[t].results) :
              /\ IsPrediction(thr[t].results[i])
              /\ \E j, k \in 1..Len(CLASS_NAMES) :
                    /\ j # k
                    /\ thr[t].results[i].all_confidences[j]
                          = thr[t].results[i].confidence
                    /\ thr[t].results[i].all_confidences[k]
                          = thr[t].results[i].confidence
              /\ SumSeq(thr[t].results[i].all_confidences) \in (10000 - 8)..10000

\* C18: the image a request classifies for a file is the content that request
\* uploaded for it, also while another request saves a file of the same name.
C18_OwnContentClassified ==
    \A t \in Threads :
        thr[t].pc = "forward" =>
            thr[t].image = thr[t].files[thr[t].idx].content

\* the batches of all epochs
AllBatches == (0..(EPOCHS - 1)) \X (0..(NumBatches(train.images) - 1))

\* C19: optimizer.step runs after every ACCUMULATION_STEPS-th batch of an
\* epoch with the gradients zeroed right after it, and when training is over
\* every batch's gradient has been applied in exactly one optimizer step:
\* none was discarded and none was carried into the next epoch.
C19_EveryGradientApplied ==
    /\ train.pc = "batches" =>
          /\ Cardinality(train.grad) = train.step % ACCUMULATION_STEPS
          /\ \A b \in train.grad : b[1] = train.epoch
    /\ \A i \in 1..Len(train.steps) :
          /\ Cardinality(train.steps[i]) = ACCUMULATION_STEPS
          /\ \A b, c \in train.steps[i] : b[1] = c[1]
    /\ train.pc = "saved" =>
          /\ train.dropped = {} /\ train.grad = {}
          /\ \A b \in AllBatches :
                Cardinality({ i \in 1..Len(train.steps) : b \in train.steps[i] }) = 1

\* what nuuuttsss.py's /predict is to answer: the first failing check of the
\* five, or success
KerasExpected(t) ==
    IF thr[t].files = <<>>
    THEN [status |-> 400, error |-> <<"No image file provided">>]
    ELSE IF thr[t].files[1].filename = <<>>
    THEN [status |-> 400, error |-> <<"No file selected">>]
    ELSE IF ~SupportedName(thr[t].files[1].filename)
    THEN [status |-> 400, error |-> <<"Invalid file type">>]
    ELSE IF ~Decodable(thr[t].files[1].content)
    THEN [status |-> 500, error |-> <<"Error processing image">>]
    ELSE IF model = "none"
    THEN [status |-> 500, error |-> <<"Error making prediction">>]
    ELSE [status |-> 200, error |-> <<>>]

\* C20: nuuuttsss.py's POST /predict answers with the error of the first
\* failing check (part present, filename not empty, extension allowed,
\* preprocessing, prediction), 400 for the first three and 500 for the last
\* two, and with a prediction, and no "error" key, exactly when all pass.
C20_FirstFailingCheckDecides ==
    \A t \in Threads :
        (script = "keras" /\ thr[t].route = "predict" /\ thr[t].pc = "done") =>
            LET e == KerasExpected(t)
            IN  /\ thr[t].resp.kind = "json_dict"
                /\ thr[t].resp.status = e.status
                /\ e.status # 200 =>
                      /\ thr[t].resp.body = [error |-> e.error]
                      /\ ~IsPrediction(thr[t].resp.body)
                /\ e.status = 200 =>
                      /\ IsPrediction(thr[t].resp.body)
                      /\ ~IsError(thr[t].resp.body)
                /\ IsPrediction(thr[t].resp.body) <=> e.status = 200

\* C20 happens: a part with an empty filename, which fails the extension
\* check as well, was answered 400 "No file selected"
C20_Witness ==
    \E t \in Threads :
        /\ script = "keras" /\ thr[t].route = "predict" /\ thr[t].pc = "done"
        /\ thr[t].files # <<>> /\ thr[t].files[1].filename = <<>>
        /\ thr[t].resp.status = 400
        /\ thr[t].resp.body = [error |-> <<"No file selected">>]

\* the keys of the snapshot get_weather returns
SnapshotKeys == {"temp", "humidity", "weather", "rain"}

\* a JSON body with current.temp_c, current.humidity and
\* current.condition.text
AllFieldsPresent(body) ==
    /\ body.t = "dict" /\ "current" \in DOMAIN body.v
    /\ body.v["current"].t = "dict"
    /\ {"temp_c", "humidity", "condition"} \subseteq DOMAIN body.v["current"].v
    /\ body.v["current"].v["condition"].t = "dict"
    /\ "text" \in DOMAIN body.v["current"].v["condition"].v

\* the text has the letters r, a, i, n in a row, each in either case
ContainsRainAnyCase(text) ==
    \E i \in 1..(Len(text) - 3) :
        /\ text[i] \in {"r", "R"} /\ text[i + 1] \in {"a", "A"}
        /\ text[i + 2] \in {"i", "I"} /\ text[i + 3] \in {"n", "N"}

\* C21: what get_weather returns has either exactly the keys temp, humidity,
\* weather and rain or the key "error", never both; it is the snapshot only
\* when the external call answered 200 with a body that has every field, and
\* then temp, humidity and weather are the body's fields and rain is true
\* exactly when the condition text contains "rain" in any letter case.
C21_SnapshotOrError ==
    \A t \in Threads :
        (thr[t].route = "weather" /\ thr[t].pc = "done") =>
            LET out == thr[t].outcome
                w   == get_weather(script, out)
            IN  /\ DOMAIN w = SnapshotKeys \/ DOMAIN w = {"error"}
                /\ DOMAIN w = SnapshotKeys =>
                      /\ out.exc = "none" /\ out.json /\ out.status = 200
                      /\ AllFieldsPresent(WeatherBody(out.body))
                      /\ LET current == WeatherBody(out.body).v["current"].v
                         IN  /\ w.temp = current["temp_c"]
                             /\ w.humidity = current["humidity"]
                             /\ w.weather = current["condition"].v["text"]
                             /\ w.weather.t = "str"
                             /\ w.rain.v = ContainsRainAnyCase(w.weather.v)
                /\ thr[t].resp.body =
                      (IF script = "keras" /\ "error" \in DOMAIN w
                       THEN [error |-> w["error"]] ELSE w)

\* C21 happens: the external service answered 200 with the condition text
\* "heavy RAIN" and /weather returned a snapshot whose rain flag is set
C21_Witness ==
    \E t \in Threads :
        /\ thr[t].route = "weather" /\ thr[t].pc = "done"
        /\ thr[t].outcome.status = 200 /\ thr[t].outcome.body = 3
        /\ DOMAIN thr[t].resp.body = SnapshotKeys
        /\ thr[t].resp.body.rain.v = TRUE
        /\ ~HasSubstring(thr[t].resp.body.weather.v, <<"r","a","i","n">>)

\* the weather_alerts of the disease a card names
AlertsOfCard(card) ==
    LET db == DiseaseInfoOf(script)
    IN  db[CHOOSE l \in DOMAIN db : db[l].name = card.label].weather_alerts

\* the /weather answer is a snapshot, not an error payload
IsSnapshot(weather) == DOMAIN weather = SnapshotKeys

\* C22: every displayed prediction carries at most one alert: the disease's
\* high_humidity text when the humidity is above 80 and the disease has one,
\* otherwise its high_rain text when the rain flag is set and the disease has
\* one, otherwise none; a humidity of exactly 80 raises no humidity alert and
\* an error payload raises none at all.
C22_OneWeatherAlert ==
    \A i \in 1..Len(dash.shown) :
        dash.shown[i].kind = "card" =>
            LET card   == dash.shown[i]
                alerts == AlertsOfCard(card)
                w      == dash.weather
            IN  /\ ~IsSnapshot(w) => card.alert = ""
                /\ IsSnapshot(w) =>
                      /\ (w.humidity.v > 80 /\ "high_humidity" \in DOMAIN alerts)
                            => card.alert = alerts["high_humidity"]
                      /\ ( /\ ~(w.humidity.v > 80 /\ "high_humidity" \in DOMAIN alerts)
                           /\ w.rain.v /\ "high_rain" \in DOMAIN alerts )
                            => card.alert = alerts["high_rain"]
                      /\ ( /\ ~(w.humidity.v > 80 /\ "high_humidity" \in DOMAIN alerts)
                           /\ ~(w.rain.v /\ "high_rain" \in DOMAIN alerts) )
                            => card.alert = ""
                      /\ (w.humidity.v = 80 /\ ~w.rain.v) => card.alert = ""
                /\ card.alert \in {""} \cup { alerts[k] : k \in DOMAIN alerts }

\* C22 happens: a disease with a high_humidity text is displayed without an
\* alert at a humidity of exactly 80 and no rain
C22_Witness ==
    \E i \in 1..Len(dash.shown) :
        /\ dash.shown[i].kind = "card"
        /\ "high_humidity" \in DOMAIN AlertsOfCard(dash.shown[i])
        /\ IsSnapshot(dash.weather)
        /\ dash.weather.humidity.v = 80 /\ ~dash.weather.rain.v
        /\ dash.shown[i].alert = ""

\* weather snapshots of every kind: dry to saturated air, cold to hot, with
\* and without rain
Snapshots ==
    { [temp     |-> JNum(c),
       humidity |-> JNum(h),
       weather  |-> JStr(IF r THEN <<"R","a","i","n">> ELSE <<"S","u","n","n","y">>),
       rain     |-> [t |-> "bool", v |-> r]] :
          c \in {5, 35}, h \in {10, 80, 81, 100}, r \in BOOLEAN }

\* C23: for every disease the dashboard displays and every key of its
\* weather_alerts there is a weather snapshot under which the dashboard shows
\* the text stored under that key for a prediction of that disease.
C23_EveryAlertDisplayable ==
    \A i \in 1..Len(dash.shown) :
        dash.shown[i].kind = "card" =>
            LET alerts == AlertsOfCard(dash.shown[i])
            IN  \A key \in DOMAIN alerts :
                    \E weather \in Snapshots :
                        WeatherAlert(weather, [weather_alerts |-> alerts])
                            = alerts[key]

\* the labels of a class list
LabelsOf(classes) == { classes[i] : i \in 1..Len(classes) }

\* C24: in each script every class label has a record with name, causes,
\* cure, prevention and weather_alerts, and the predicted_class of every
\* prediction is the name of the record of the class at the argmax position,
\* never a raw label, with the causes, cure, prevention and weather_alerts of
\* that record.
C24_KnowledgeBaseTotal ==
    /\ \A label \in LabelsOf(globals.classes) :
          /\ label \in DOMAIN globals.disease_info
          /\ DOMAIN globals.disease_info[label]
                = {"name", "causes", "cure", "prevention", "weather_alerts"}
          /\ globals.disease_info[label].name
                \notin LabelsOf(CLASS_NAMES) \cup LabelsOf(CLASSES)
    /\ \A t \in Threads :
          \A i \in 1..Len(thr[t].results) :
              IsPrediction(thr[t].results[i]) =>
                  LET r     == thr[t].results[i]
                      label == ClassesOf(script)[ArgMax(thr[t].outputs[i])]
                      rec   == DiseaseInfoOf(script)[label]
                  IN  /\ r.predicted_class = rec.name
                      /\ r.predicted_class # label
                      /\ r.causes = rec.causes /\ r.causes > 0
                      /\ r.cure = rec.cure /\ r.cure > 0
                      /\ r.prevention = rec.prevention /\ r.prevention > 0
                      /\ r.weather_alerts = rec.weather_alerts
                      /\ r.weather_alerts # <<>>

\* C24 happens: test2_0.py answered with a prediction of the class whose
\* label is "ALTERNARIA LEAF SPOT", under its name and with its four causes
C24_Witness ==
    \E t \in Threads :
        /\ script = "vit" /\ thr[t].pc = "done" /\ thr[t].resp.kind = "json_list"
        /\ \E i \in 1..Len(thr[t].resp.body) :
              /\ IsPrediction(thr[t].resp.body[i])
              /\ ArgMax(thr[t].outputs[i]) = 1
              /\ thr[t].resp.body[i].predicted_class = "Alternaria Leaf Spot"
              /\ thr[t].resp.body[i].causes = 4

\* a is an initial part of b
IsPrefix(a, b) == Len(a) <= Len(b) /\ SubSeq(b, 1, Len(a)) = a

\* the positions of the predictions in the results /predict answered
PredictionIndexes(data) ==
    LET Pred(i) == IsPrediction(data[i])
    IN  SelectSeq([i \in 1..Len(data) |-> i], Pred)

\* C25: the step that processes the results of an analysis appends to the
\* history exactly one entry per prediction, in order and at the end, and
\* none for an error result; no step other than clearing (and loading the
\* page again) changes, removes or reorders an entry, and clearing leaves the
\* history empty.
C25_HistoryOnlyAccumulates ==
    [][ /\ DashWeatherAnswer =>
              LET idx == PredictionIndexes(dash.data)
              IN  /\ IsPrefix(dash.history, dash'.history)
                  /\ Len(dash'.history) = Len(dash.history) + Len(idx)
                  /\ \A k \in 1..Len(idx) :
                        (Len(dash.history) + k) \in DOMAIN dash'.history =>
                            LET entry == dash'.history[Len(dash.history) + k]
                            IN  IF script = "vit"
                                THEN entry.predicted_class
                                        = dash.data[idx[k]].predicted_class
                                ELSE entry.label = dash.data[idx[k]].predicted_class
        /\ DashClear => dash'.history = <<>>
        /\ ~(DashClear \/ DashReload) => IsPrefix(dash.history, dash'.history)
        /\ (DashSelect \/ DashAnalyze \/ DashPredictAnswer \/ DashFetchFails)
              => dash'.history = dash.history ]_vars

\* C26: every entry the page of test2_0.py appends for the results of a
\* request carries the image of the file that was sent at the position of
\* its prediction in that request, whatever the user selected or cleared
\* while the request was in flight.
C26_ImageOfOwnFile ==
    [][ (script = "vit" /\ DashWeatherAnswer) =>
            LET idx == PredictionIndexes(dash.data)
                old == Len(dash.history)
            IN  \A k \in 1..(Len(dash'.history) - old) :
                    dash'.history[old + k].imgUrl = dash.sent[idx[k]] ]_vars

\* the cards among what the page shows
CardsOf(shown) ==
    LET Card(x) == x.kind = "card"
    IN  SelectSeq(shown, Card)

\* C27: when /predict has returned results and the selection is still the
\* one that was sent, the end of the /weather call, be it a snapshot, an
\* error payload or a failed fetch, leaves one displayed card and one new
\* history entry for every prediction among the results.
C27_WeatherFailureKeepsPredictions ==
    [][ ( /\ dash.pc = "weather" /\ dash.current = dash.sent
          /\ (DashWeatherAnswer \/ DashFetchFails) ) =>
            LET idx   == PredictionIndexes(dash.data)
                cards == CardsOf(dash'.shown)
            IN  /\ Len(dash'.history) = Len(dash.history) + Len(idx)
                /\ Len(cards) = Len(idx)
                /\ \A k \in 1..Len(idx) :
                      k \in DOMAIN cards =>
                          cards[k].label = dash.data[idx[k]].predicted_class ]_vars

\* C28: allowed_file of either script accepts a filename exactly when the
\* name has a dot and the text after its last dot is png, jpg, jpeg or webp
\* in any letter case; "a.PNG" is accepted, "a.png.exe" and "png" are not;
\* and the two scripts give the same answer for every filename.
C28_AllowedFile ==
    allowed.pc = "returned" =>
        /\ allowed.vit = SupportedName(allowed.filename)
        /\ allowed.keras = SupportedName(allowed.filename)
        /\ allowed.vit = allowed.keras
        /\ allowed.filename = <<"a",".","P","N","G">> => allowed.vit
        /\ allowed.filename \in { <<"a",".","p","n","g",".","e","x","e">>,
                                  <<"p","n","g">> } => ~allowed.vit
        /\ ~HasChar(allowed.filename, ".") => ~allowed.vit

\* C28 happens: both scripts accepted a name with two dots whose last part
\* is an extension in upper case
C28_Witness ==
    /\ allowed.pc = "returned"
    /\ allowed.filename = <<".", ".", "P", "n", "g">>
    /\ allowed.vit /\ allowed.keras

\* C29: the dict load_model gives to load_state_dict has exactly as many
\* keys as the checkpoint's state dict, also when that holds both "module.x"
\* and "x", and each of its keys is a checkpoint key as it was or without one
\* leading "module.".
C29_NoWeightEntryLost ==
    loaded.done =>
        /\ Cardinality(DOMAIN loaded.dict) = Len(StateDictIn(ckpt))
        /\ \A k \in DOMAIN loaded.dict :
              \E i \in 1..Len(StateDictIn(ckpt)) :
                  LET ck == StateDictIn(ckpt)[i].k
                  IN  k = ck \/ K_module_dot \o k = ck

\* C30: the network modelinfo.py builds to load vit_groundnut_cpu_friendly.pth
\* has as many output classes as test2_0.py's CLASS_NAMES has labels, and
\* the page's CLASS_LABELS has as many entries.
C30_SameNumberOfClasses ==
    /\ Len(CLASS_LABELS) = Len(CLASS_NAMES)
    /\ loaded.done => loaded.num_classes = Len(globals.classes)

=============================================================================
